---------------------------- MODULE Spec2Model ----------------------------
(***************************************************************************)
(* Model of the per-account runner of src/runner.py: the forward loop, the *)
(* command handler, the user file on disk, and the multi-user loader.      *)
(*                                                                         *)
(* Text (command arguments, HH:MM strings) is a sequence of one-character  *)
(* strings, so that parsing and formatting are computed, not assumed.      *)
(* Times of day are whole seconds since local midnight.                    *)
(***************************************************************************)
EXTENDS Integers, Sequences, FiniteSets, TLC

(***************************************************************************)
(* Bounds of the model                                                     *)
(***************************************************************************)
MaxSaved == 2          \* messages ever posted to Saved Messages
MaxWriteFailures == 1  \* failing writes of the user file
MaxTasks == 2          \* run_user_bot tasks created by user_loader
MaxTicks == 3          \* steps of the clock of the join rate limiter

(***************************************************************************)
(* Program constants                                                       *)
(***************************************************************************)
DEFAULT_DELAY_SEC == 5
DEFAULT_CYCLE_MIN == 15
FetchLimit == 100        \* get_messages("me", limit=100)
IdleSleep == 300         \* asyncio.sleep(300) of the inactive/expired/no-groups branches
BackoffSleep == 60       \* asyncio.sleep(60) of the except branch
DaySeconds == 86400      \* timedelta(days=1)

Corrupt == [unreadable |-> TRUE]  \* a user file json.load cannot read (truncated)
None == "None"
NoReply == [cmd |-> "none", kind |-> "none"]

(***************************************************************************)
(* Text helpers                                                            *)
(***************************************************************************)
Digits == {"0", "1", "2", "3", "4", "5", "6", "7", "8", "9"}

DigitVal(c) ==
  CASE c = "0" -> 0 [] c = "1" -> 1 [] c = "2" -> 2 [] c = "3" -> 3
    [] c = "4" -> 4 [] c = "5" -> 5 [] c = "6" -> 6 [] c = "7" -> 7
    [] c = "8" -> 8 [] c = "9" -> 9

DigitChar(d) ==
  CASE d = 0 -> "0" [] d = 1 -> "1" [] d = 2 -> "2" [] d = 3 -> "3"
    [] d = 4 -> "4" [] d = 5 -> "5" [] d = 6 -> "6" [] d = 7 -> "7"
    [] d = 8 -> "8" [] d = 9 -> "9"

\* str.lower() on the letters the commands use
Lower(c) ==
  CASE c = "O" -> "o" [] c = "N" -> "n" [] c = "F" -> "f" [] c = "H" -> "h"
    [] c = "T" -> "t" [] OTHER -> c

LowerStr(s) == [i \in 1..Len(s) |-> Lower(s[i])]

RECURSIVE LStrip(_)
LStrip(s) == IF s # <<>> /\ Head(s) = " " THEN LStrip(Tail(s)) ELSE s

RECURSIVE RStrip(_)
RStrip(s) ==
  IF s # <<>> /\ s[Len(s)] = " " THEN RStrip(SubSeq(s, 1, Len(s) - 1)) ELSE s

\* str.strip()
Strip(s) == RStrip(LStrip(s))

AllDigits(s) == \A i \in 1..Len(s) : s[i] \in Digits

\* int(s) of a string of digits
RECURSIVE IntOf(_)
IntOf(s) ==
  IF s = <<>> THEN 0
  ELSE 10 * IntOf(SubSeq(s, 1, Len(s) - 1)) + DigitVal(s[Len(s)])

\* "".join(filter(str.isdigit, text))
RECURSIVE DigitsOf(_)
DigitsOf(s) ==
  IF s = <<>> THEN <<>>
  ELSE IF Head(s) \in Digits THEN <<Head(s)>> \o DigitsOf(Tail(s))
  ELSE DigitsOf(Tail(s))

\* f"{h}:{m:02d}": the hour without its leading zero
FormatHMM(h, m) ==
  (IF h >= 10 THEN <<DigitChar(h \div 10)>> ELSE <<>>)
    \o <<DigitChar(h % 10), ":", DigitChar(m \div 10), DigitChar(m % 10)>>

\* f"{h:02d}:{m:02d}"
FormatHHMM(h, m) ==
  <<DigitChar(h \div 10), DigitChar(h % 10), ":",
    DigitChar(m \div 10), DigitChar(m % 10)>>

(***************************************************************************)
(* Auto-Night helpers                                                      *)
(***************************************************************************)
Invalid == [ok |-> FALSE, h |-> 0, m |-> 0]

\* _parse_hhmm: "7", "07", "7:00", "07:00"; ok = FALSE stands for ValueError
_parse_hhmm(raw) ==
  LET s == Strip(raw) IN
  IF Len(s) \in {1, 2} /\ AllDigits(s)
  THEN IF IntOf(s) <= 23 THEN [ok |-> TRUE, h |-> IntOf(s), m |-> 0] ELSE Invalid
  ELSE IF /\ Len(s) \in {4, 5}
          /\ s[Len(s) - 2] = ":"
          /\ AllDigits(SubSeq(s, 1, Len(s) - 3))
          /\ AllDigits(SubSeq(s, Len(s) - 1, Len(s)))
       THEN LET h == IntOf(SubSeq(s, 1, Len(s) - 3))
                mm == IntOf(SubSeq(s, Len(s) - 1, Len(s)))
            IN IF h <= 23 /\ mm <= 59 THEN [ok |-> TRUE, h |-> h, m |-> mm]
               ELSE Invalid
       ELSE Invalid

\* a datetime.time as seconds since midnight
TimeSecs(t) == (t.h * 60 + t.m) * 60

\* a window that includes its end time
_in_windowClosed(now_t, start_t, end_t) ==
  IF start_t <= end_t
  THEN start_t <= now_t /\ now_t <= end_t
  ELSE now_t >= start_t \/ now_t <= end_t

\* a window whose start = end case falls to the wrapping branch
_in_windowStrict(now_t, start_t, end_t) ==
  IF start_t < end_t
  THEN start_t <= now_t /\ now_t < end_t
  ELSE now_t >= start_t \/ now_t < end_t

\* _in_window over seconds of day
_in_window(now_t, start_t, end_t) ==
  IF start_t <= end_t
  THEN start_t <= now_t /\ now_t < end_t
  ELSE now_t >= start_t \/ now_t < end_t

\* autonight_is_quiet at local time t (fails open when a time does not parse)
\* a quiet test that looks at the window only, not at "enabled"
autonight_is_quietWindowOnly(cfg, t) ==
  LET start_t == _parse_hhmm(cfg.start)
      end_t == _parse_hhmm(cfg.end)
  IN IF start_t.ok /\ end_t.ok
     THEN _in_window(t, TimeSecs(start_t), TimeSecs(end_t))
     ELSE FALSE

autonight_is_quiet(cfg, t) ==
  IF ~cfg.enabled THEN FALSE
  ELSE LET start_t == _parse_hhmm(cfg.start)
           end_t == _parse_hhmm(cfg.end)
       IN IF start_t.ok /\ end_t.ok
          THEN _in_window(t, TimeSecs(start_t), TimeSecs(end_t))
          ELSE FALSE

Max(a, b) == IF a >= b THEN a ELSE b
Min(a, b) == IF a <= b THEN a ELSE b

\* an end_dt that is always on the day of now
QuietEndToday(cfg, t) == TimeSecs(_parse_hhmm(cfg.end))

\* a sleep length without the max(1, seconds)
seconds_until_quiet_endRaw(cfg, t, sub) ==
  IF 2 * (TimeSecs(_parse_hhmm(cfg.end)) - t) - sub > 0
  THEN (2 * (TimeSecs(_parse_hhmm(cfg.end)) - t) - sub) \div 2
  ELSE (2 * (TimeSecs(_parse_hhmm(cfg.end)) + DaySeconds - t) - sub) \div 2

\* seconds_until_quiet_end: end_dt, in seconds after the midnight that starts
\* today, at local time t (both times parse where it is called)
QuietEnd(cfg, t) ==
  LET start_t == TimeSecs(_parse_hhmm(cfg.start))
      end_t == TimeSecs(_parse_hhmm(cfg.end))
  IN IF start_t <= end_t
     THEN (IF t >= end_t THEN end_t + DaySeconds ELSE end_t)
     ELSE (IF t < end_t THEN end_t ELSE end_t + DaySeconds)

\* seconds_until_quiet_end at local time t seconds plus sub half seconds
\* (datetime.now() is not on a whole second): int() drops the fraction of
\* end_dt - now, then max(1, seconds)
seconds_until_quiet_end(cfg, t, sub) ==
  Max(1, (2 * (QuietEnd(cfg, t) - t) - sub) \div 2)


\* load_autonight_for_user: DEFAULT_AUTONIGHT overridden by the stored keys
DEFAULT_AUTONIGHT ==
  [enabled |-> TRUE,
   start |-> <<"2", "3", ":", "0", "0">>,
   end |-> <<"0", "7", ":", "0", "0">>,
   tz |-> "Asia/Kolkata"]

load_autonight_for_user(user) ==
  [k \in DOMAIN DEFAULT_AUTONIGHT |->
     IF k \in DOMAIN user.auto_night THEN user.auto_night[k]
     ELSE DEFAULT_AUTONIGHT[k]]

(***************************************************************************)
(* State                                                                   *)
(***************************************************************************)
VARIABLES
  disk,         \* content of the user file: a user record, or Corrupt
  user_cfg,     \* the record run_user_bot was started with (closure variable)
  user_state,   \* [delay, cycle, auto_cfg], shared by handler and loop
  now,          \* local time of day, in seconds
  saved,        \* Saved Messages, oldest first: "content" or "service"
  pc,           \* the call forward_loop is awaiting
  groups,       \* forward_loop: groups of this cycle
  messages,     \* forward_loop: fetched message ids, oldest first
  mi,           \* forward_loop: index of the current message
  gi,           \* forward_loop: index of the current group
  sleepFor,     \* argument of the asyncio.sleep being awaited
  sleepWhy,     \* which sleep of forward_loop it is
  ev,           \* "fwd_err": the latest step caught a failed forward;
                \* "exc": it caught an exception of the loop body;
                \* "restart": the runner was stopped and started; else "none"
  reply,        \* the event.respond issued by the latest step, or None
  attempted,    \* history: groups a forward was started to, for the current item
  dispatched,   \* history: <<message, group>> pairs whose forward has completed
  cycleDone,    \* history: <<message, group index>> forwards started this cycle
  sinceItem,    \* history: per-item sleeps finished since the last item completed
  held,         \* history: saved messages present at the latest no-groups cycle
  writeFailures,
  expiryPassed, \* datetime.utcnow() is past the plan expiry of the account
  started_users,\* loader: paths of started user files
  files,        \* loader: what each user file holds
  tasks,        \* loader: the run_user_bot tasks created, oldest first
  scan,         \* loader: how the latest pass over USERS_DIR went
  calc,         \* one evaluation of the Auto-Night helpers: inputs and results
  jq_items,     \* JoinQueue: the "items" list of the queue file
  jq_ret,       \* JoinQueue: the latest call, its argument and what it returned
                \* (added: the count; flag: the bool of enqueue; it: the item)
  jq_pending,   \* history: the items accepted and not yet dequeued, in the
                \* order they were accepted
  jq_served,    \* history: the items dequeue has returned so far
  jq_file,      \* the queue file: "present", "missing" or "corrupt" (not JSON)
  st_file,      \* Storage: the user file (exists, and the JSON object it holds)
  st_ret,       \* Storage: the latest call, its argument and what it returned
  restUntil,    \* the rest setting of the account: 0 (not set) or an instant
  limiter       \* JoinRateLimiter: cap, clock, timestamps kept, joins made

loopVars == <<pc, groups, messages, mi, gi, sleepFor, sleepWhy>>
histVars == <<attempted, dispatched, cycleDone, sinceItem, held>>
acctVars ==
  <<disk, user_cfg, user_state, now, saved, ev, reply, writeFailures, expiryPassed>>
loaderVars == <<started_users, files, tasks, scan>>
calcVars == <<calc>>
queueVars == <<jq_items, jq_ret, jq_pending, jq_served, jq_file>>
storeVars == <<st_file, st_ret>>
restVars == <<restUntil>>
rateVars == <<limiter>>
\* what the steps of one account leave alone
outerVars == <<loaderVars, calcVars, queueVars, storeVars, restVars, rateVars>>
vars ==
  <<acctVars, loopVars, histVars, loaderVars, calcVars, queueVars, storeVars,
    restVars, rateVars>>

\* sample instants of the day: 00:00, 07:00, 12:00, 23:00
Times == {0, 25200, 43200, 82800}

\* the cap on the number of destinations the specification asks for
maxDestinations == 50

\* one more distinct link than the cap, as the words of one .addgroup
ManyLinks == [i \in 1..(maxDestinations + 1) |-> "https://t.me/g" \o ToString(i)]

\* the strings in which re.findall(r'https://t\.me/\S+') finds a link
Links ==
  {"https://t.me/a", "https://t.me/b", "https://t.me/c"}
    \cup {ManyLinks[i] : i \in DOMAIN ManyLinks}

\* the record login.py writes for a new account (auto-night enabled)
NewUser ==
  [groups |-> <<>>,
   settings |-> [msg_delay_sec |-> DEFAULT_DELAY_SEC,
                 cycle_delay_min |-> DEFAULT_CYCLE_MIN],
   auto_night |-> DEFAULT_AUTONIGHT,
   active |-> TRUE,
   plan_expiry |-> None]

\* load_user_from_file: the record, or an unreadable value standing for None
Readable(d) == "groups" \in DOMAIN d

load_user_from_file(d) == IF Readable(d) THEN d ELSE Corrupt

\* save_user_to_file: the file after the write; the exception of a failing
\* write is swallowed, leaving the old file or a truncated one
save_user_to_file(user, out) ==
  CASE out = "ok" -> user
    [] out = "open_failed" -> disk
    [] out = "truncated" -> Corrupt

WriteOutcomes ==
  {"ok"} \cup (IF writeFailures < MaxWriteFailures
               THEN {"open_failed", "truncated"} ELSE {})

\* a plan expiry with a UTC offset: datetime.fromisoformat returns an aware
\* datetime
AwareExpiry == "2030-01-01T00:00:00+00:00"

\* is_plan_active raises: "now < exp" compares the naive datetime.utcnow()
\* with an aware expiry (TypeError)
is_plan_active_raises(user) == user.plan_expiry = AwareExpiry

\* is_plan_active: no expiry, or expiry in the future
is_plan_active(user) == user.plan_expiry = None \/ ~expiryPassed


(***************************************************************************)
(* forward_loop                                                            *)
(***************************************************************************)
Range(f) == {f[i] : i \in DOMAIN f}

\* the sample instant after t
NextTime(t) ==
  IF \E u \in Times : u > t
  THEN CHOOSE u \in Times : u > t /\ \A w \in Times : w > t => u <= w
  ELSE CHOOSE u \in Times : \A w \in Times : u <= w

\* forward_loop is at the top of "while True": not started yet, or in one of
\* the sleeps that are followed by "continue" or end the loop body
AtTop == pc = "start" \/ (pc = "sleep" /\ sleepWhy # "delay")

\* local time when the awaited sleep returns
WakeTimes ==
  IF pc = "start" THEN {now}
  ELSE IF sleepWhy \in {"quiet", "night_break"}
       THEN {(now + sleepFor) % DaySeconds}
       ELSE Times

\* await asyncio.sleep(secs) that is followed by the next cycle
TopSleep(secs, why) ==
  /\ pc' = "sleep"
  /\ sleepFor' = secs
  /\ sleepWhy' = why
  /\ groups' = <<>>
  /\ messages' = <<>>
  /\ mi' = 0
  /\ gi' = 0
  /\ attempted' = <<>>

\* what every step of forward_loop leaves alone
LoopFrame ==
  /\ reply' = NoReply
  /\ UNCHANGED <<disk, user_cfg, saved, writeFailures, expiryPassed, outerVars>>

\* the start of a cycle, at local time t
CycleHead(t) ==
  /\ AtTop
  /\ t \in WakeTimes
  /\ now' = t
  /\ cycleDone' = {}
  /\ LoopFrame
  /\ UNCHANGED <<dispatched, sinceItem>>

\* cfg = load_user_from_file(config_path) fails: the loop returns
LoopFileGone(t) ==
  /\ CycleHead(t)
  /\ ~Readable(load_user_from_file(disk))
  /\ pc' = "stopped"
  /\ sleepFor' = 0
  /\ sleepWhy' = "none"
  /\ groups' = <<>> /\ messages' = <<>> /\ mi' = 0 /\ gi' = 0
  /\ attempted' = <<>>
  /\ ev' = "none"
  /\ UNCHANGED <<user_state, held>>

LoopInactive(t) ==
  /\ CycleHead(t)
  /\ Readable(load_user_from_file(disk))
  /\ ~disk.active
  /\ TopSleep(IdleSleep, "inactive")
  /\ ev' = "none"
  /\ UNCHANGED <<user_state, held>>

LoopPlanExpired(t) ==
  /\ CycleHead(t)
  /\ Readable(load_user_from_file(disk))
  /\ disk.active
  /\ ~is_plan_active_raises(disk)
  /\ ~is_plan_active(disk)
  /\ TopSleep(IdleSleep, "expired")
  /\ ev' = "none"
  /\ UNCHANGED <<user_state, held>>

\* the checks a cycle passes before it looks at the groups
Eligible ==
  /\ Readable(load_user_from_file(disk))
  /\ disk.active
  /\ ~is_plan_active_raises(disk)
  /\ is_plan_active(disk)

\* a cycle without groups that sleeps the 60 seconds of the except branch
LoopNoGroupsIdle(t) ==
  /\ CycleHead(t)
  /\ Eligible
  /\ disk.groups = <<>>
  /\ TopSleep(BackoffSleep, "nogroups")
  /\ held' = Len(saved)
  /\ ev' = "none"
  /\ UNCHANGED user_state

\* the group list is empty: sleep 300 seconds, before any fetch
LoopNoGroups(t) ==
  /\ CycleHead(t)
  /\ Eligible
  /\ disk.groups = <<>>
  /\ TopSleep(IdleSleep, "nogroups")
  /\ held' = Len(saved)
  /\ ev' = "none"
  /\ UNCHANGED user_state

\* a quiet cycle that sleeps the fixed 300 seconds of the idle branches
LoopQuietShort(t) ==
  /\ CycleHead(t)
  /\ Eligible
  /\ disk.groups # <<>>
  /\ autonight_is_quiet(load_autonight_for_user(disk), t)
  /\ user_state' = [user_state EXCEPT !.auto_cfg = load_autonight_for_user(disk)]
  /\ TopSleep(IdleSleep, "quiet")
  /\ ev' = "none"
  /\ UNCHANGED held

\* the Auto-Night window is active at the start of the cycle
LoopQuiet(t) ==
  /\ CycleHead(t)
  /\ Eligible
  /\ disk.groups # <<>>
  /\ autonight_is_quiet(load_autonight_for_user(disk), t)
  /\ user_state' = [user_state EXCEPT !.auto_cfg = load_autonight_for_user(disk)]
  /\ TopSleep(seconds_until_quiet_end(load_autonight_for_user(disk), t, 0), "quiet")
  /\ ev' = "none"
  /\ UNCHANGED held

\* the cycle goes on to client.get_messages("me", limit=100)
LoopFetch(t) ==
  /\ CycleHead(t)
  /\ Eligible
  /\ disk.groups # <<>>
  /\ ~autonight_is_quiet(load_autonight_for_user(disk), t)
  /\ user_state' = [user_state EXCEPT !.auto_cfg = load_autonight_for_user(disk)]
  /\ pc' = "get_messages"
  /\ groups' = disk.groups
  /\ messages' = <<>> /\ mi' = 0 /\ gi' = 0
  /\ sleepFor' = 0
  /\ sleepWhy' = "none"
  /\ attempted' = <<>>
  /\ ev' = "none"
  /\ UNCHANGED held


\* get_messages("me", limit=100), reversed: the ids of the latest FetchLimit
\* saved messages, oldest first
FetchedIds ==
  LET n == Len(saved)
      k == Min(FetchLimit, n)
  IN [i \in 1..k |-> n - k + i]

\* "msg.message is None and not msg.media": no text and no media
IsEmptyMsg(id) == saved[id] = "service"

\* index of the first message at or after k that is not skipped, 0 if none
NextContent(msgs, k) ==
  IF \E j \in k..Len(msgs) : ~IsEmptyMsg(msgs[j])
  THEN CHOOSE j \in k..Len(msgs) :
         /\ ~IsEmptyMsg(msgs[j])
         /\ \A i \in k..(j - 1) : IsEmptyMsg(msgs[i])
  ELSE 0

\* a forward that takes its destination from the list in the user file as it
\* is when the forward is made
StartForwardReread(msgs, j, g) ==
  LET cur == IF Len(disk.groups) >= g THEN disk.groups ELSE groups IN
  /\ pc' = "forward_messages"
  /\ messages' = msgs
  /\ mi' = j
  /\ gi' = g
  /\ sleepFor' = 0
  /\ sleepWhy' = "none"
  /\ attempted' = (IF g = 1 THEN <<>> ELSE attempted) \o <<cur[g]>>
  /\ cycleDone' = cycleDone \cup {<<msgs[j], g>>}
  /\ groups' = cur

\* client.forward_messages(groups[g], msgs[j]) is called
StartForward(msgs, j, g) ==
  /\ pc' = "forward_messages"
  /\ messages' = msgs
  /\ mi' = j
  /\ gi' = g
  /\ sleepFor' = 0
  /\ sleepWhy' = "none"
  /\ attempted' = (IF g = 1 THEN <<>> ELSE attempted) \o <<groups[g]>>
  /\ cycleDone' = cycleDone \cup {<<msgs[j], g>>}
  /\ UNCHANGED groups

\* the body of "for msg in messages" from index k on, at local time t, up to
\* the next await: skip empty messages, break when night has started, else
\* forward the message to the first group; past the last message the cycle
\* is complete
Dispatch(msgs, k, t) ==
  LET j == NextContent(msgs, k) IN
  IF j = 0
  THEN /\ TopSleep(user_state.cycle * 60, "cycle")
       /\ UNCHANGED cycleDone
  ELSE IF autonight_is_quiet(user_state.auto_cfg, t)
  THEN /\ TopSleep(seconds_until_quiet_end(user_state.auto_cfg, t, 0), "night_break")
       /\ UNCHANGED cycleDone
  ELSE StartForward(msgs, j, 1)

\* a loop that starts over with the first message after each item
ResumeIndexFirst(m) == 1

\* the message the loop goes on with after the per-item sleep
ResumeIndex(m) == m + 1

\* await client.get_messages returns
GetMessagesDone ==
  /\ pc = "get_messages"
  /\ Dispatch(FetchedIds, 1, now)
  /\ ev' = "none"
  /\ LoopFrame
  /\ UNCHANGED <<now, user_state, dispatched, sinceItem, held>>

\* the except branch of the loop body: log, asyncio.sleep(60), next cycle
Backoff ==
  /\ TopSleep(BackoffSleep, "backoff")
  /\ ev' = "exc"

\* is_plan_active(cfg) raises at the head of the cycle: the except branch of
\* the loop sleeps 60 seconds
LoopPlanRaises(t) ==
  /\ CycleHead(t)
  /\ Readable(load_user_from_file(disk))
  /\ disk.active
  /\ is_plan_active_raises(disk)
  /\ Backoff
  /\ UNCHANGED <<user_state, held>>

Stopped ==
  /\ pc' = "stopped"
  /\ sleepFor' = 0
  /\ sleepWhy' = "none"
  /\ groups' = <<>> /\ messages' = <<>> /\ mi' = 0 /\ gi' = 0
  /\ attempted' = <<>>
  /\ ev' = "exc"

\* a loop without the except branch: the exception ends the task
GetMessagesKills ==
  /\ pc = "get_messages"
  /\ Stopped
  /\ LoopFrame
  /\ UNCHANGED <<now, user_state, dispatched, cycleDone, sinceItem, held>>

\* await client.get_messages raises
GetMessagesFails ==
  /\ pc = "get_messages"
  /\ Backoff
  /\ LoopFrame
  /\ UNCHANGED <<now, user_state, dispatched, cycleDone, sinceItem, held>>

\* await asyncio.sleep(user_state["delay"])
ItemSleep(secs) ==
  /\ pc' = "sleep"
  /\ sleepFor' = secs
  /\ sleepWhy' = "delay"
  /\ gi' = 0
  /\ sinceItem' = 0
  /\ UNCHANGED <<groups, messages, mi, attempted, cycleDone>>

\* await client.forward_messages returns (ok) or raises (~ok); when caught,
\* the exception is logged and the loop over the groups goes on
ForwardFinish(ok, caught) ==
  /\ pc = "forward_messages"
  /\ dispatched' = dispatched \cup {<<messages[mi], groups[gi]>>}
  /\ IF ~caught
     THEN /\ Backoff
          /\ UNCHANGED <<cycleDone, sinceItem>>
     ELSE /\ ev' = (IF ok THEN "none" ELSE "fwd_err")
          /\ IF gi < Len(groups)
             THEN StartForward(messages, mi, gi + 1) /\ UNCHANGED sinceItem
             ELSE ItemSleep(user_state.delay)
  /\ LoopFrame
  /\ UNCHANGED <<now, user_state, held>>

\* a loop without the try/except around forward_messages
ForwardDoneUncaught(ok) == ForwardFinish(ok, ok)

\* a loop without the per-item sleep
ForwardDoneNoSleep(ok) ==
  /\ pc = "forward_messages"
  /\ dispatched' = dispatched \cup {<<messages[mi], groups[gi]>>}
  /\ ev' = (IF ok THEN "none" ELSE "fwd_err")
  /\ IF gi < Len(groups)
     THEN StartForward(messages, mi, gi + 1) /\ UNCHANGED sinceItem
     ELSE Dispatch(messages, mi + 1, now) /\ sinceItem' = 0
  /\ LoopFrame
  /\ UNCHANGED <<now, user_state, held>>

\* the forward of forward_loop: every exception is caught (lines 591-596)
ForwardDone(ok) == ForwardFinish(ok, TRUE)

\* the per-item sleep returns, at local time t
ItemSleepDone(t) ==
  /\ pc = "sleep"
  /\ sleepWhy = "delay"
  /\ now' = t
  /\ sinceItem' = sinceItem + 1
  /\ Dispatch(messages, ResumeIndex(mi), t)
  /\ ev' = "none"
  /\ LoopFrame
  /\ UNCHANGED <<user_state, dispatched, held>>

\* time passes while a network call is awaited
Tick ==
  /\ pc \in {"get_messages", "forward_messages"}
  /\ now' = NextTime(now)
  /\ ev' = "none"
  /\ reply' = NoReply
  /\ UNCHANGED <<disk, user_cfg, user_state, saved, writeFailures, expiryPassed>>
  /\ UNCHANGED <<loopVars, histVars, outerVars>>


(***************************************************************************)
(* command_handler                                                         *)
(***************************************************************************)
\* \d{1,2}(?::\d{2})?
IsTimeToken(s) ==
  \/ Len(s) \in {1, 2} /\ AllDigits(s)
  \/ /\ Len(s) \in {4, 5}
     /\ s[Len(s) - 2] = ":"
     /\ AllDigits(SubSeq(s, 1, Len(s) - 3))
     /\ AllDigits(SubSeq(s, Len(s) - 1, Len(s)))

\* (?:to|-) between the two times
IsSeparator(s) == s = <<"t", "o">> \/ s = <<"-">>

\* the splits <<i, j>> of arg into time, separator arg[i..j], time, with
\* optional blanks around each: the matches of the time-range pattern
RangeSplits(arg) ==
  {ij \in (1..Len(arg)) \X (1..Len(arg)) :
     /\ ij[1] <= ij[2]
     /\ IsSeparator(SubSeq(arg, ij[1], ij[2]))
     /\ IsTimeToken(Strip(SubSeq(arg, 1, ij[1] - 1)))
     /\ IsTimeToken(Strip(SubSeq(arg, ij[2] + 1, Len(arg))))}

\* autonight_parse_command: the kind of message and the updated cfg
autonight_parse_command(raw, cfg) ==
  LET arg == Strip(raw)
      low == LowerStr(arg)
  IN
  IF arg = <<>> THEN [kind |-> "status", cfg |-> cfg]
  ELSE IF low \in {<<"o", "n">>, <<"e", "n", "a", "b", "l", "e">>,
                   <<"e", "n", "a", "b", "l", "e", "d">>}
  THEN [kind |-> "enabled", cfg |-> [cfg EXCEPT !.enabled = TRUE]]
  ELSE IF low \in {<<"o", "f", "f">>, <<"d", "i", "s", "a", "b", "l", "e">>,
                   <<"d", "i", "s", "a", "b", "l", "e", "d">>}
  THEN [kind |-> "disabled", cfg |-> [cfg EXCEPT !.enabled = FALSE]]
  ELSE IF RangeSplits(arg) = {}
  THEN [kind |-> "format_error", cfg |-> cfg]
  ELSE LET ij == CHOOSE x \in RangeSplits(arg) : TRUE
           start_t == _parse_hhmm(SubSeq(arg, 1, ij[1] - 1))
           end_t == _parse_hhmm(SubSeq(arg, ij[2] + 1, Len(arg)))
       IN IF ~(start_t.ok /\ end_t.ok)
          THEN [kind |-> "value_error", cfg |-> cfg]
          ELSE [kind |-> "updated",
                cfg |-> [cfg EXCEPT !.start = FormatHHMM(start_t.h, start_t.m),
                                    !.end = FormatHHMM(end_t.h, end_t.m)]]

\* a handler that works on the record the bot was started with
StartupCopy == user_cfg

\* current = load_user_from_file(config_path) or user_cfg
HandlerCurrent ==
  IF Readable(load_user_from_file(disk)) THEN disk ELSE user_cfg

\* what every command does first: user_state["auto_cfg"] is reloaded
AutoLocal == load_autonight_for_user(HandlerCurrent)

\* save_user_to_file(rec) of a handler; when current is the fallback
\* user_cfg, the handler has changed user_cfg itself
HandlerSave(rec, out) ==
  /\ out \in WriteOutcomes
  /\ disk' = save_user_to_file(rec, out)
  /\ user_cfg' = IF Readable(load_user_from_file(disk)) THEN user_cfg ELSE rec
  /\ writeFailures' = IF out = "ok" THEN writeFailures ELSE writeFailures + 1

\* a handler that returns without saving
HandlerNoSave ==
  UNCHANGED <<disk, user_cfg, writeFailures>>

\* what a step of command_handler leaves alone
HandlerFrame ==
  /\ ev' = "none"
  /\ UNCHANGED <<now, saved, expiryPassed, loopVars, histVars, outerVars>>

\* the command arguments tried
TimeArgs == {<<" ", "2", "h">>, <<" ", "0">>}
DelayArgs == {<<" ", "7">>, <<>>}
NightArgs ==
  {<<>>, <<" ", "1", "2", " ", "t", "o", " ", "2", "3">>,
   <<" ", "2", "5", "-", "7">>, <<" ", "x">>}
AddGroupArgs == {<<"https://t.me/a", "https://t.me/a">>, <<"none">>}
DelGroupArgs == {<<"https://t.me/a">>}

\* .time <n>[h]
CmdTime(arg, out) ==
  LET value == IntOf(DigitsOf(arg))
      cycle == IF "h" \in Range(LowerStr(arg)) THEN value * 60 ELSE value
      cur == HandlerCurrent
  IN
  /\ IF value <= 0
     THEN /\ user_state' = [user_state EXCEPT !.auto_cfg = AutoLocal]
          /\ reply' = [cmd |-> "time", kind |-> "usage"]
          /\ HandlerNoSave
     ELSE /\ user_state' = [user_state EXCEPT !.auto_cfg = AutoLocal,
                                              !.cycle = cycle]
          /\ HandlerSave([cur EXCEPT !.settings.cycle_delay_min = cycle], out)
          /\ reply' = [cmd |-> "time", kind |-> "ok", value |-> cycle]
  /\ HandlerFrame

\* .delay <n>
CmdDelay(arg, out) ==
  LET value == IntOf(DigitsOf(arg))
      cur == HandlerCurrent
  IN
  /\ IF value <= 0
     THEN /\ user_state' = [user_state EXCEPT !.auto_cfg = AutoLocal]
          /\ reply' = [cmd |-> "delay", kind |-> "usage"]
          /\ HandlerNoSave
     ELSE /\ user_state' = [user_state EXCEPT !.auto_cfg = AutoLocal,
                                              !.delay = value]
          /\ HandlerSave([cur EXCEPT !.settings.msg_delay_sec = value], out)
          /\ reply' = [cmd |-> "delay", kind |-> "ok", value |-> value]
  /\ HandlerFrame


\* re.findall(r'https://t\.me/\S+', text) over the blank-separated words
RECURSIVE LinksOf(_)
LinksOf(words) ==
  IF words = <<>> THEN <<>>
  ELSE IF Head(words) \in Links THEN <<Head(words)>> \o LinksOf(Tail(words))
  ELSE LinksOf(Tail(words))

\* a loop that tests each link against the list as it was before the command
AddLinksStale(gs, links) ==
  gs \o SelectSeq(links, LAMBDA link : link \notin Range(gs))

\* the loop "for link in links: if link not in groups: groups.append(link)"
RECURSIVE AddLinks(_, _)
AddLinks(gs, links) ==
  IF links = <<>> THEN gs
  ELSE IF Head(links) \in Range(gs) THEN AddLinks(gs, Tail(links))
  ELSE AddLinks(Append(gs, Head(links)), Tail(links))

\* list.remove(x): drops the first occurrence
RECURSIVE RemoveFirst(_, _)
RemoveFirst(gs, x) ==
  IF gs = <<>> THEN <<>>
  ELSE IF Head(gs) = x THEN Tail(gs)
  ELSE <<Head(gs)>> \o RemoveFirst(Tail(gs), x)

\* .addgroup <url ...>
CmdAddGroup(words, out) ==
  LET links == LinksOf(words)
      cur == HandlerCurrent
      gs == AddLinks(cur.groups, links)
  IN
  /\ user_state' = [user_state EXCEPT !.auto_cfg = AutoLocal]
  /\ IF links = <<>>
     THEN /\ reply' = [cmd |-> "addgroup", kind |-> "usage"]
          /\ HandlerNoSave
     ELSE /\ HandlerSave([cur EXCEPT !.groups = gs], out)
          /\ reply' = [cmd |-> "addgroup", kind |-> "ok", value |-> gs]
  /\ HandlerFrame

\* .delgroup <url>
CmdDelGroup(words, out) ==
  LET cur == HandlerCurrent IN
  /\ user_state' = [user_state EXCEPT !.auto_cfg = AutoLocal]
  /\ IF Len(words) = 1 /\ words[1] \in Range(cur.groups)
     THEN LET gs == RemoveFirst(cur.groups, words[1]) IN
          /\ HandlerSave([cur EXCEPT !.groups = gs], out)
          /\ reply' = [cmd |-> "delgroup", kind |-> "ok", value |-> gs]
     ELSE /\ reply' = [cmd |-> "delgroup", kind |-> "usage"]
          /\ HandlerNoSave
  /\ HandlerFrame

\* .night [on|off|<start> to <end>]: the parsed cfg is saved in every case
CmdNight(arg, out) ==
  LET cur == HandlerCurrent
      res == autonight_parse_command(arg, AutoLocal)
  IN
  /\ HandlerSave([cur EXCEPT !.auto_night = res.cfg], out)
  /\ user_state' = [user_state EXCEPT !.auto_cfg = res.cfg]
  /\ reply' = [cmd |-> "night",
               kind |-> IF res.kind \in {"enabled", "disabled", "updated"}
                        THEN "ok"
                        ELSE IF res.kind = "status" THEN "info" ELSE "usage",
               value |-> res.cfg]
  /\ HandlerFrame

\* .status, .info, .groups, .help: a reply and nothing saved
CmdInfo ==
  /\ user_state' = [user_state EXCEPT !.auto_cfg = AutoLocal]
  /\ reply' = [cmd |-> "info", kind |-> "info"]
  /\ HandlerNoSave
  /\ HandlerFrame

(***************************************************************************)
(* The environment of one account                                          *)
(***************************************************************************)
\* the owner posts a message to Saved Messages
Post(kind) ==
  /\ Len(saved) < MaxSaved
  /\ saved' = Append(saved, kind)
  /\ ev' = "none"
  /\ reply' = NoReply
  /\ UNCHANGED <<disk, user_cfg, user_state, now, writeFailures, expiryPassed>>
  /\ UNCHANGED <<loopVars, histVars, outerVars>>

(***************************************************************************)
(* One account: the state when run_user_bot has connected the client and   *)
(* creates the forward_loop task.  user_cfg is the record user_loader read *)
(* before the connect; since then the operator may have marked the account *)
(* inactive or deleted its file, and the plan may have run out.            *)
(***************************************************************************)
InitAccount ==
  /\ user_cfg = [NewUser EXCEPT !.plan_expiry = "2030-01-01T00:00:00"]
  /\ disk \in {user_cfg, [user_cfg EXCEPT !.active = FALSE], Corrupt}
  /\ user_state =
       [delay |-> user_cfg.settings.msg_delay_sec,
        cycle |-> user_cfg.settings.cycle_delay_min,
        auto_cfg |-> load_autonight_for_user(user_cfg)]
  /\ now \in Times
  /\ saved = <<>>
  /\ pc = "start"
  /\ groups = <<>> /\ messages = <<>> /\ mi = 0 /\ gi = 0
  /\ sleepFor = 0
  /\ sleepWhy = "none"
  /\ ev = "none"
  /\ reply = NoReply
  /\ attempted = <<>>
  /\ dispatched = {}
  /\ cycleDone = {}
  /\ sinceItem = -1
  /\ held = 0
  /\ writeFailures = 0
  /\ expiryPassed \in BOOLEAN

\* no pass of user_loader has raised or left a file out
NoScan == [raised |-> FALSE, missed |-> {}]

InitLoaderIdle ==
  /\ started_users = {}
  /\ files = <<>>
  /\ tasks = <<>>
  /\ scan = NoScan

(***************************************************************************)
(* The Auto-Night helpers evaluated on their own: one window, one instant  *)
(***************************************************************************)
\* the start and end texts tried: "23:00", "07:00", "7", "12:30", "0"
WindowTexts ==
  {<<"2", "3", ":", "0", "0">>, <<"0", "7", ":", "0", "0">>, <<"7">>,
   <<"1", "2", ":", "3", "0">>, <<"0">>}

\* the instants tried, in seconds of the day: 00:00, 02:00, 06:59, 06:59:59,
\* 07:00, 12:00, 12:30, 22:59, 23:00, 23:30, 23:59:59
Instants ==
  {0, 7200, 25140, 25199, 25200, 43200, 45000, 82740, 82800, 84600, 86399}

\* no evaluation under way
CalcIdle == [step |-> "idle"]

InitCalcIdle == calc = CalcIdle

(***************************************************************************)
(* JoinQueue (app/Storage.py)                                              *)
(***************************************************************************)
\* the join targets tried: two kinds with the same value, and two more
QueueItems ==
  {[kind |-> "invite", value |-> "abc123"],
   [kind |-> "username", value |-> "abc123"],
   [kind |-> "username", value |-> "publicChannel"],
   [kind |-> "entity_id", value |-> "123456"]}

\* the lists passed to enqueue_many: up to two items, also twice the same,
\* and one list of three with a repeated item
QueueArgs ==
  {<<>>} \cup {<<a>> : a \in QueueItems}
    \cup {<<a, b>> : a \in QueueItems, b \in QueueItems}
    \cup {<<[kind |-> "invite", value |-> "abc123"],
             [kind |-> "invite", value |-> "abc123"],
             [kind |-> "username", value |-> "publicChannel"]>>}

\* the None that dequeue returns on an empty queue
NoItem == [kind |-> "none", value |-> "none"]

\* the (kind, value) key of an item
KeyOf(it) == <<it.kind, it.value>>

\* an enqueue_many that tests every item against the queue as loaded
enqueue_manyStale(items, arg) ==
  items \o SelectSeq(arg, LAMBDA it :
                            KeyOf(it) \notin {KeyOf(items[i]) : i \in DOMAIN items})

\* an enqueue_many that also drops the items that were queued before
enqueue_manyOnce(items, arg) ==
  items \o SelectSeq(arg, LAMBDA it :
                            /\ KeyOf(it) \notin {KeyOf(items[i]) : i \in DOMAIN items}
                            /\ it \notin jq_served)

\* the loop of enqueue_many: the items list after appending the items of arg
\* whose key is not yet in it
RECURSIVE enqueue_many(_, _)
enqueue_many(items, arg) ==
  IF arg = <<>> THEN items
  ELSE IF KeyOf(Head(arg)) \in {KeyOf(items[i]) : i \in DOMAIN items}
  THEN enqueue_many(items, Tail(arg))
  ELSE enqueue_many(Append(items, Head(arg)), Tail(arg))

\* a count of every item of the argument that is not in the queue as loaded
enqueue_countStale(items, arg) ==
  Len(SelectSeq(arg, LAMBDA it :
                       KeyOf(it) \notin {KeyOf(items[i]) : i \in DOMAIN items}))

\* the counter "added" of the loop of enqueue_many, which it returns
RECURSIVE enqueue_count(_, _)
enqueue_count(items, arg) ==
  IF arg = <<>> THEN 0
  ELSE IF KeyOf(Head(arg)) \in {KeyOf(items[i]) : i \in DOMAIN items}
  THEN enqueue_count(items, Tail(arg))
  ELSE 1 + enqueue_count(Append(items, Head(arg)), Tail(arg))

\* a dequeue that pops the last item
PopLast(items) == [it |-> items[Len(items)], rest |-> SubSeq(items, 1, Len(items) - 1)]

\* items.pop(0) of dequeue: the item returned and the list left
Pop(items) == [it |-> Head(items), rest |-> Tail(items)]

\* JoinQueue.__init__ on a new path writes {"items": []}
InitJoinQueue ==
  /\ jq_items = <<>>
  /\ jq_ret = [op |-> "init", arg |-> <<>>, added |-> 0, flag |-> FALSE,
               it |-> NoItem]
  /\ jq_pending = <<>>
  /\ jq_served = {}
  /\ jq_file = "present"

QueueFrame ==
  UNCHANGED <<acctVars, loopVars, histVars, loaderVars, calcVars, storeVars,
              restVars, rateVars>>

\* a call whose _load or _save raises: the file is as before (the write goes
\* to a temporary file that is moved over the queue file)
QueueCallRaises(op) ==
  /\ jq_ret' = [op |-> op, arg |-> <<>>, added |-> -1, flag |-> FALSE,
                it |-> NoItem]
  /\ UNCHANGED <<jq_items, jq_pending, jq_served, jq_file>>

\* the history after a list has been enqueued: the items not pending are
\* accepted, in the order of the list
RECURSIVE Accept(_, _)
Accept(pending, arg) ==
  IF arg = <<>> THEN pending
  ELSE IF \E i \in DOMAIN pending : KeyOf(pending[i]) = KeyOf(Head(arg))
  THEN Accept(pending, Tail(arg))
  ELSE Accept(Append(pending, Head(arg)), Tail(arg))

\* enqueue_many(items); ok = FALSE: the call raises, as it does when _load
\* finds no file or no JSON
EnqueueMany(arg, ok) ==
  /\ IF ok /\ jq_file = "present"
     THEN LET new == enqueue_many(jq_items, arg) IN
          /\ jq_items' = new
          /\ jq_ret' = [op |-> "enqueue_many", arg |-> arg,
                        added |-> enqueue_count(jq_items, arg),
                        flag |-> FALSE, it |-> NoItem]
          /\ jq_pending' = Accept(jq_pending, arg)
          /\ UNCHANGED <<jq_served, jq_file>>
     ELSE QueueCallRaises("enqueue_many")
  /\ QueueFrame

\* enqueue(kind, value) == enqueue_many([item]) > 0
Enqueue(item, ok) ==
  /\ IF ok /\ jq_file = "present"
     THEN LET new == enqueue_many(jq_items, <<item>>) IN
          /\ jq_items' = new
          /\ jq_ret' = [op |-> "enqueue", arg |-> <<item>>,
                        added |-> enqueue_count(jq_items, <<item>>),
                        flag |-> enqueue_count(jq_items, <<item>>) > 0,
                        it |-> NoItem]
          /\ jq_pending' = Accept(jq_pending, <<item>>)
          /\ UNCHANGED <<jq_served, jq_file>>
     ELSE QueueCallRaises("enqueue")
  /\ QueueFrame

\* the history after an item has been returned by dequeue
RECURSIVE Served(_, _)
Served(pending, it) ==
  IF pending = <<>> THEN <<>>
  ELSE IF Head(pending) = it THEN Tail(pending)
  ELSE <<Head(pending)>> \o Served(Tail(pending), it)

\* dequeue(); ok = FALSE: the call raises
Dequeue(ok) ==
  /\ IF ~ok \/ jq_file # "present"
     THEN QueueCallRaises("dequeue")
     ELSE IF jq_items = <<>>
     THEN /\ jq_ret' = [op |-> "dequeue", arg |-> <<>>, added |-> 0,
                        flag |-> FALSE, it |-> NoItem]
          /\ UNCHANGED <<jq_items, jq_pending, jq_served, jq_file>>
     ELSE LET p == Pop(jq_items) IN
          /\ jq_items' = p.rest
          /\ jq_ret' = [op |-> "dequeue", arg |-> <<>>, added |-> 0,
                        flag |-> FALSE, it |-> p.it]
          /\ jq_pending' = Served(jq_pending, p.it)
          /\ jq_served' = jq_served \cup {p.it}
          /\ UNCHANGED jq_file
  /\ QueueFrame

\* JoinQueue.__init__ that writes the empty queue whatever the path holds
JoinQueue_initFresh(file, items) == [file |-> "present", items |-> <<>>]

\* JoinQueue.__init__(path): the empty queue is written only when the path
\* does not exist
JoinQueue_init(file, items) ==
  IF file = "missing" THEN [file |-> "present", items |-> <<>>]
  ELSE [file |-> file, items |-> items]

\* a write that truncates the queue file and dumps the JSON into it: a process
\* stopped before the end leaves a file that is not JSON
_write_json_in_place(old, new, moved) ==
  IF moved THEN [file |-> "present", items |-> new]
  ELSE [file |-> "corrupt", items |-> <<>>]

\* _atomic_write_json(path, data) in a process that may stop during the call:
\* the JSON goes to a temporary file of the same directory, and the queue file
\* is `old` until shutil.move has renamed the temporary file, `new` after
_atomic_write_json(old, new, moved) ==
  [file |-> "present", items |-> IF moved THEN new ELSE old]

\* len(data): the number of keys of the JSON object
sizeOfObject(items) == 1

\* size(): len(items)
size(items) == Len(items)

\* a new JoinQueue object on the same path (a restart of the process)
Reopen ==
  /\ LET f == JoinQueue_init(jq_file, jq_items) IN
       /\ jq_file' = f.file
       /\ jq_items' = f.items
  /\ jq_ret' = [op |-> "open", arg |-> <<>>, added |-> 0,
                flag |-> jq_file = "missing", it |-> NoItem]
  /\ UNCHANGED <<jq_pending, jq_served>>
  /\ QueueFrame

\* the queue file is deleted between two runs: what __init__ finds when
\* path.exists() is false
RemoveFile ==
  /\ jq_file = "present"
  /\ jq_file' = "missing"
  /\ jq_items' = <<>>
  /\ jq_pending' = <<>>
  /\ jq_ret' = [op |-> "unlink", arg |-> <<>>, added |-> 0, flag |-> FALSE,
                it |-> NoItem]
  /\ UNCHANGED jq_served
  /\ QueueFrame

\* the process stops inside enqueue_many(items) (or enqueue, a list of one
\* item), in _save: before or after the move
CrashInEnqueueMany(arg, moved) ==
  /\ jq_file = "present"
  /\ LET f == _atomic_write_json(jq_items, enqueue_many(jq_items, arg), moved) IN
       /\ jq_file' = f.file
       /\ jq_items' = f.items
  /\ jq_ret' = [op |-> "crash", arg |-> arg, added |-> 0, flag |-> moved,
                it |-> NoItem]
  /\ jq_pending' = IF moved THEN Accept(jq_pending, arg) ELSE jq_pending
  /\ UNCHANGED jq_served
  /\ QueueFrame

\* the process stops inside dequeue(), in _save: before or after the move
CrashInDequeue(moved) ==
  /\ jq_file = "present"
  /\ jq_items # <<>>
  /\ LET p == Pop(jq_items)
         f == _atomic_write_json(jq_items, p.rest, moved) IN
       /\ jq_file' = f.file
       /\ jq_items' = f.items
       /\ jq_ret' = [op |-> "crash", arg |-> <<>>, added |-> 0, flag |-> moved,
                     it |-> p.it]
       /\ jq_pending' = IF moved THEN Served(jq_pending, p.it) ELSE jq_pending
  /\ UNCHANGED jq_served
  /\ QueueFrame

\* size(); ok = FALSE: the call raises
Size(ok) ==
  /\ IF ok /\ jq_file = "present"
     THEN /\ jq_ret' = [op |-> "size", arg |-> <<>>, added |-> size(jq_items),
                        flag |-> FALSE, it |-> NoItem]
          /\ UNCHANGED <<jq_items, jq_pending, jq_served, jq_file>>
     ELSE QueueCallRaises("size")
  /\ QueueFrame

\* ---- Storage and UserConfig (src/app/Storage.py) ----

\* the chat ids, phones and expiry dates of the storage tests
ChatIds == {123, 456, 999}
Phones == {"+1", "+15550000000"}
Expiries == {"2025-01-01", "2025-01-31"}

\* the default of the dataclass field cycle_minutes
UserConfigCycleMinutes == 10

\* UserConfig objects: groups is a set of ints
UserConfigs ==
  [phone : Phones, plan_expiry : Expiries,
   cycle_minutes : {5, UserConfigCycleMinutes}, groups : SUBSET ChatIds]

\* the lists of chat ids passed to add_groups: the list of the test with a
\* repeated id, the empty list, and lists that overlap what is stored
AddGroupsArgs ==
  {<<>>, <<123>>, <<123, 456, 123>>, <<456, 999>>, <<999, 999>>}

\* sorted(s) of a set of ints: the ascending list
RECURSIVE sorted(_)
sorted(s) ==
  IF s = {} THEN <<>>
  ELSE LET m == CHOOSE x \in s : \A y \in s : x <= y
       IN <<m>> \o sorted(s \ {m})

\* set(map(int, l)) of a list of ints
SetOfList(l) == {l[i] : i \in DOMAIN l}

\* UserConfig.to_dict: the JSON object, groups as a sorted list
to_dict(cfg) ==
  [phone |-> cfg.phone, plan_expiry |-> cfg.plan_expiry,
   cycle_minutes |-> cfg.cycle_minutes, groups |-> sorted(cfg.groups)]

\* a from_dict that looks cycle_minutes up under a key the file does not
\* have, and gets the default
from_dictDefaultCycle(data) ==
  [phone |-> data.phone, plan_expiry |-> data.plan_expiry,
   cycle_minutes |-> UserConfigCycleMinutes, groups |-> SetOfList(data.groups)]

\* UserConfig.from_dict of an object that has every key (save writes them
\* all): groups become a set again
from_dict(data) ==
  [phone |-> data.phone, plan_expiry |-> data.plan_expiry,
   cycle_minutes |-> data.cycle_minutes, groups |-> SetOfList(data.groups)]

\* an add_groups that counts the ids of its argument
add_groupsList(stored, chat_ids) ==
  [groups |-> stored \cup SetOfList(chat_ids), n |-> Len(chat_ids)]

\* add_groups on the loaded set: stored.update(chat_ids), and the growth of
\* the set is returned
add_groups(stored, chat_ids) ==
  LET after == stored \cup SetOfList(chat_ids)
  IN [groups |-> after, n |-> Cardinality(after) - Cardinality(stored)]

\* a remove_group that discards the id and reports success
remove_groupDiscard(stored, chat_id) ==
  [groups |-> stored \ {chat_id}, existed |-> TRUE]

\* remove_group on the loaded set
remove_group(stored, chat_id) ==
  [groups |-> IF chat_id \in stored THEN stored \ {chat_id} ELSE stored,
   existed |-> chat_id \in stored]

\* list_groups: sorted(load().groups)
list_groups(data) == sorted(from_dict(data).groups)

\* no UserConfig / no file content
NoCfg == [phone |-> "", plan_expiry |-> "", cycle_minutes |-> 0, groups |-> {}]
NoData == to_dict(NoCfg)

\* Storage.__init__ keeps the path only: the file does not exist yet
InitStorage ==
  /\ st_file = [exists |-> FALSE, data |-> NoData]
  /\ st_ret = [op |-> "init", cfg |-> NoCfg, ids |-> <<>>, id |-> 0, n |-> 0,
               flag |-> FALSE, list |-> <<>>]

StoreFrame ==
  UNCHANGED <<acctVars, loopVars, histVars, loaderVars, calcVars, queueVars,
              restVars, rateVars>>

\* a call that raises (load: FileNotFoundError; save: the write fails before
\* the move): the file is as before, n = -1 marks the exception
StorageCallRaises(op) ==
  /\ st_ret' = [op |-> op, cfg |-> NoCfg, ids |-> <<>>, id |-> 0, n |-> -1,
                flag |-> FALSE, list |-> <<>>]
  /\ UNCHANGED st_file

\* save(cfg)
Save(cfg, ok) ==
  /\ IF ok
     THEN /\ st_file' = [exists |-> TRUE, data |-> to_dict(cfg)]
          /\ st_ret' = [op |-> "save", cfg |-> cfg, ids |-> <<>>, id |-> 0,
                        n |-> 0, flag |-> FALSE, list |-> <<>>]
     ELSE StorageCallRaises("save")
  /\ StoreFrame

\* load()
Load ==
  /\ IF st_file.exists
     THEN /\ st_ret' = [op |-> "load", cfg |-> from_dict(st_file.data),
                        ids |-> <<>>, id |-> 0, n |-> 0, flag |-> FALSE,
                        list |-> <<>>]
          /\ UNCHANGED st_file
     ELSE StorageCallRaises("load")
  /\ StoreFrame

\* add_groups(chat_ids): load, update, save, return the growth
AddGroups(chat_ids, ok) ==
  /\ IF st_file.exists /\ ok
     THEN LET cfg == from_dict(st_file.data)
              r == add_groups(cfg.groups, chat_ids)
          IN /\ st_file' = [exists |-> TRUE,
                            data |-> to_dict([cfg EXCEPT !.groups = r.groups])]
             /\ st_ret' = [op |-> "add_groups", cfg |-> NoCfg,
                           ids |-> chat_ids, id |-> 0, n |-> r.n,
                           flag |-> FALSE, list |-> <<>>]
     ELSE StorageCallRaises("add_groups")
  /\ StoreFrame

\* remove_group(chat_id): load, and save only when the id was stored
RemoveGroup(chat_id, ok) ==
  /\ IF ~st_file.exists
     THEN StorageCallRaises("remove_group")
     ELSE LET cfg == from_dict(st_file.data)
              r == remove_group(cfg.groups, chat_id)
          IN IF ~r.existed
             THEN /\ st_ret' = [op |-> "remove_group", cfg |-> NoCfg,
                                ids |-> <<>>, id |-> chat_id, n |-> 0,
                                flag |-> FALSE, list |-> <<>>]
                  /\ UNCHANGED st_file
             ELSE IF ok
             THEN /\ st_file' =
                       [exists |-> TRUE,
                        data |-> to_dict([cfg EXCEPT !.groups = r.groups])]
                  /\ st_ret' = [op |-> "remove_group", cfg |-> NoCfg,
                                ids |-> <<>>, id |-> chat_id, n |-> 0,
                                flag |-> TRUE, list |-> <<>>]
             ELSE StorageCallRaises("remove_group")
  /\ StoreFrame

\* list_groups()
ListGroups ==
  /\ IF st_file.exists
     THEN /\ st_ret' = [op |-> "list_groups", cfg |-> NoCfg, ids |-> <<>>,
                        id |-> 0, n |-> 0, flag |-> FALSE,
                        list |-> list_groups(st_file.data)]
          /\ UNCHANGED st_file
     ELSE StorageCallRaises("list_groups")
  /\ StoreFrame

\* ---- rest setting of an account (specification, RuntimeConfig) ----

\* no rest has been asked for
InitNoRest == restUntil = 0

\* ---- JoinRateLimiter (specification 4.2; Config holds its settings) ----

\* Config.joins_per_hour_limit, and _int_env("JOINS_PER_HOUR_LIMIT", 15)
joins_per_hour_limit == 15

\* the trailing window of the limiter, in seconds
WindowSeconds == 3600

\* the timestamps of a list that lie in the trailing window of instant t
InWindow(stamps, t) ==
  SelectSeq(stamps, LAMBDA ts : ts <= t /\ t - ts < WindowSeconds)

\* a canJoinNow that lets the join through while the count is at the cap
canJoinNowLoose(stamps, t, cap) == Len(InWindow(stamps, t)) <= cap

\* canJoinNow(): false once the count in the window reaches the cap
canJoinNow(stamps, t, cap) == Len(InWindow(stamps, t)) < cap

\* recordJoin(timestamp): the timestamp is kept, those that left the window
\* are dropped
recordJoin(stamps, t) == Append(InWindow(stamps, t), t)

\* a limiter that is not in use
LimiterIdle == [cap |-> 0, clock |-> 0, ticks |-> 0, stamps |-> <<>>,
                made |-> <<>>, last |-> "idle"]

InitLimiterIdle == limiter = LimiterIdle

LimiterFrame ==
  UNCHANGED <<acctVars, loopVars, histVars, loaderVars, calcVars, queueVars,
              storeVars, restVars>>

\* a join request: the caller consults canJoinNow; a join that is allowed is
\* made and recorded, one that is not is deferred
JoinRequest ==
  /\ limiter.last # "idle"
  /\ IF canJoinNow(limiter.stamps, limiter.clock, limiter.cap)
     THEN limiter' = [limiter EXCEPT
                        !.stamps = recordJoin(limiter.stamps, limiter.clock),
                        !.made = Append(limiter.made, limiter.clock),
                        !.last = "joined"]
     ELSE limiter' = [limiter EXCEPT !.last = "deferred"]
  /\ LimiterFrame

\* half a window passes
LimiterTick ==
  /\ limiter.last # "idle"
  /\ limiter.ticks < MaxTicks
  /\ limiter' = [limiter EXCEPT !.clock = limiter.clock + WindowSeconds \div 2,
                                !.ticks = limiter.ticks + 1,
                                !.last = "tick"]
  /\ LimiterFrame

Init ==
  /\ InitAccount /\ InitLoaderIdle /\ InitCalcIdle /\ InitJoinQueue
  /\ InitStorage /\ InitNoRest /\ InitLimiterIdle

InitQueue ==
  /\ InitAccount
  /\ InitLoaderIdle
  /\ InitCalcIdle
  /\ InitJoinQueue
  /\ InitStorage
  /\ InitNoRest
  /\ InitLimiterIdle
  /\ now = 0
  /\ disk = user_cfg
  /\ ~expiryPassed

NextQueue ==
  \E ok \in BOOLEAN :
    \/ \E arg \in QueueArgs : EnqueueMany(arg, ok)
    \/ \E item \in QueueItems : Enqueue(item, ok)
    \/ Dequeue(ok)
    \/ Size(ok)

SpecQueue == InitQueue /\ [][NextQueue]_vars

\* the queue in a process that may stop during a call and be started again
NextReopen ==
  \/ NextQueue
  \/ \E moved \in BOOLEAN :
       \/ \E arg \in QueueArgs : CrashInEnqueueMany(arg, moved)
       \/ CrashInDequeue(moved)
  \/ Reopen
  \/ RemoveFile

SpecReopen == InitQueue /\ [][NextReopen]_vars

\* the calls of one Storage object, in any order
InitStore ==
  /\ InitAccount
  /\ InitLoaderIdle
  /\ InitCalcIdle
  /\ InitJoinQueue
  /\ InitStorage
  /\ InitNoRest
  /\ InitLimiterIdle
  /\ now = 0
  /\ disk = user_cfg
  /\ ~expiryPassed

NextStore ==
  \/ \E ok \in BOOLEAN :
       \/ \E cfg \in UserConfigs : Save(cfg, ok)
       \/ \E chat_ids \in AddGroupsArgs : AddGroups(chat_ids, ok)
       \/ \E chat_id \in ChatIds : RemoveGroup(chat_id, ok)
  \/ Load
  \/ ListGroups

SpecStore == InitStore /\ [][NextStore]_vars

\* a limiter with the default cap or a small one, from its construction on
InitLimiter ==
  /\ InitAccount
  /\ InitLoaderIdle
  /\ InitCalcIdle
  /\ InitJoinQueue
  /\ InitStorage
  /\ InitNoRest
  /\ limiter \in {[LimiterIdle EXCEPT !.cap = cap, !.last = "new"] :
                    cap \in {2, joins_per_hour_limit}}
  /\ now = 0
  /\ disk = user_cfg
  /\ ~expiryPassed

NextLimiter == JoinRequest \/ LimiterTick

SpecLimiter == InitLimiter /\ [][NextLimiter]_vars


\* the inputs of one evaluation: a cfg, and now as t seconds plus sub half
\* seconds
CalcInputs ==
  {[step |-> "input",
    cfg |-> [DEFAULT_AUTONIGHT EXCEPT !.enabled = en, !.start = st, !.end = e],
    t |-> t, sub |-> sub, inwin |-> FALSE, quiet |-> FALSE, secs |-> 0] :
     en \in BOOLEAN, st \in WindowTexts, e \in WindowTexts,
     t \in Instants, sub \in {0, 1}}

CalcFrame ==
  UNCHANGED <<acctVars, loopVars, histVars, loaderVars, queueVars, storeVars,
              restVars, rateVars>>

\* _in_window(now.time(), start_t, end_t), with the times in half seconds,
\* and autonight_is_quiet(cfg)
TestWindow ==
  /\ calc.step = "input"
  /\ calc' = [calc EXCEPT
                !.step = "tested",
                !.inwin = _in_window(2 * calc.t + calc.sub,
                                     2 * TimeSecs(_parse_hhmm(calc.cfg.start)),
                                     2 * TimeSecs(_parse_hhmm(calc.cfg.end))),
                !.quiet = autonight_is_quiet(calc.cfg, calc.t)]
  /\ CalcFrame

\* seconds_until_quiet_end(cfg)
MeasureSleep ==
  /\ calc.step = "tested"
  /\ calc' = [calc EXCEPT
                !.step = "timed",
                !.secs = seconds_until_quiet_end(calc.cfg, calc.t, calc.sub)]
  /\ CalcFrame

InitWindow ==
  /\ InitAccount
  /\ InitLoaderIdle
  /\ now = 0
  /\ disk = user_cfg
  /\ ~expiryPassed
  /\ calc \in CalcInputs
  /\ InitJoinQueue
  /\ InitStorage
  /\ InitNoRest
  /\ InitLimiterIdle

NextWindow == TestWindow \/ MeasureSleep

SpecWindow == InitWindow /\ [][NextWindow]_vars


Loop ==
  \/ \E t \in Times :
       \/ LoopFileGone(t)
       \/ LoopInactive(t)
       \/ LoopPlanExpired(t)
       \/ LoopNoGroups(t)
       \/ LoopQuiet(t)
       \/ LoopFetch(t)
       \/ ItemSleepDone(t)
  \/ GetMessagesDone
  \/ GetMessagesFails
  \/ \E ok \in BOOLEAN : ForwardDone(ok)

\* the commands of the specification of the forward loop: every write works
FwdCommands ==
  \/ \E arg \in {<<" ", "7">>} : CmdDelay(arg, "ok")
  \/ \E words \in {<<"https://t.me/a", "and", "https://t.me/b">>} :
       CmdAddGroup(words, "ok")
  \/ \E arg \in {<<" ", "o", "f", "f">>, <<" ", "O", "n">>} : CmdNight(arg, "ok")

Environment ==
  \/ Tick
  \/ \E kind \in {"content", "service"} : Post(kind)

Next == Loop \/ FwdCommands \/ Environment

Spec == Init /\ [][Next]_vars

\* the forward loop of an account whose record asks for a rest until noon
InitRest ==
  /\ InitAccount
  /\ InitLoaderIdle
  /\ InitCalcIdle
  /\ InitJoinQueue
  /\ InitStorage
  /\ InitLimiterIdle
  /\ restUntil = 43200
  /\ now = 0

NextRest ==
  \/ Loop
  \/ Environment
  \/ \E words \in {<<"https://t.me/a">>} : CmdAddGroup(words, "ok")
  \/ \E arg \in {<<" ", "o", "f", "f">>} : CmdNight(arg, "ok")

SpecRest == InitRest /\ [][NextRest]_vars

(***************************************************************************)
(* The command handler with failing writes of the user file, and restarts  *)
(* of the runner                                                           *)
(***************************************************************************)
\* run_user_bot: the live settings a bot starts with, from the record
\* user_loader read
StartState(cfg) ==
  [delay |-> cfg.settings.msg_delay_sec,
   cycle |-> cfg.settings.cycle_delay_min,
   auto_cfg |-> load_autonight_for_user(cfg)]

\* the runner is stopped and started again: user_loader reads the user file
\* and run_user_bot starts the client and a new forward_loop
Restart ==
  /\ Readable(load_user_from_file(disk))
  /\ is_plan_active(disk)
  /\ disk.active
  /\ user_cfg' = disk
  /\ user_state' = StartState(disk)
  /\ pc' = "start"
  /\ groups' = <<>> /\ messages' = <<>> /\ mi' = 0 /\ gi' = 0
  /\ sleepFor' = 0
  /\ sleepWhy' = "none"
  /\ ev' = "restart"
  /\ reply' = NoReply
  /\ attempted' = <<>>
  /\ cycleDone' = {}
  /\ sinceItem' = -1
  /\ held' = 0
  /\ UNCHANGED <<disk, now, saved, writeFailures, expiryPassed, dispatched>>
  /\ UNCHANGED outerVars

Commands ==
  \E out \in {"ok", "open_failed", "truncated"} :
    \/ \E arg \in TimeArgs : CmdTime(arg, out)
    \/ \E arg \in DelayArgs : CmdDelay(arg, out)
    \/ \E words \in AddGroupArgs : CmdAddGroup(words, out)
    \/ \E words \in DelGroupArgs : CmdDelGroup(words, out)
    \/ \E arg \in NightArgs : CmdNight(arg, out)
    \/ CmdInfo

InitCmd ==
  /\ InitAccount
  /\ InitLoaderIdle
  /\ InitCalcIdle
  /\ InitJoinQueue
  /\ InitStorage
  /\ InitNoRest
  /\ InitLimiterIdle
  /\ now = 43200
  /\ disk = user_cfg
  /\ ~expiryPassed

\* the steps of forward_loop of an active account with a running plan and
\* nothing in Saved Messages
LoopCmd ==
  \/ \E t \in Times :
       \/ LoopFileGone(t)
       \/ LoopNoGroups(t)
       \/ LoopQuiet(t)
       \/ LoopFetch(t)
  \/ GetMessagesDone
  \/ GetMessagesFails

NextCmd == LoopCmd \/ Commands

SpecCmd == InitCmd /\ [][NextCmd]_vars

\* the forward loop of an active account while .addgroup and .delgroup are
\* sent, also during a cycle; one .delgroup may fail to write the file
NextSnapshot ==
  \/ \E t \in Times :
       \/ LoopNoGroups(t)
       \/ LoopQuiet(t)
       \/ LoopFetch(t)
       \/ ItemSleepDone(t)
  \/ GetMessagesDone
  \/ GetMessagesFails
  \/ \E ok \in BOOLEAN : ForwardDone(ok)
  \/ Environment
  \/ \E words \in {<<"https://t.me/a">>, <<"https://t.me/b">>} :
       CmdAddGroup(words, "ok")
  \/ \E out \in {"ok", "open_failed"} : CmdDelGroup(<<"https://t.me/a">>, out)

SpecSnapshot == InitCmd /\ [][NextSnapshot]_vars

\* the group commands tried on their own: single links, a link named twice
\* in one command, two links in one command
GroupAddArgs ==
  {<<"https://t.me/a">>, <<"https://t.me/b">>, <<"https://t.me/c">>,
   <<"https://t.me/a", "x", "https://t.me/a">>,
   <<"https://t.me/b", "https://t.me/a">>}
GroupDelArgs == {<<"https://t.me/a">>, <<"https://t.me/b">>, <<"https://t.me/c">>}

NextGroups ==
  \E out \in {"ok", "open_failed", "truncated"} :
    \/ \E words \in GroupAddArgs : CmdAddGroup(words, out)
    \/ \E words \in GroupDelArgs : CmdDelGroup(words, out)

SpecGroups == InitCmd /\ [][NextGroups]_vars

\* the group commands with one .addgroup that names more links than the cap
NextCap ==
  \E out \in {"ok", "open_failed", "truncated"} :
    \/ \E words \in GroupAddArgs \cup {ManyLinks} : CmdAddGroup(words, out)
    \/ \E words \in GroupDelArgs : CmdDelGroup(words, out)

SpecCap == InitCmd /\ [][NextCap]_vars

\* the duration strings "1h30m", "45" and "2d" as the argument of the pacing
\* commands
PaceArgs ==
  {<<" ", "1", "h", "3", "0", "m">>, <<" ", "4", "5">>, <<" ", "2", "d">>}

NextPace ==
  \E out \in {"ok", "open_failed", "truncated"} :
    \/ \E arg \in PaceArgs : CmdDelay(arg, out)
    \/ \E arg \in PaceArgs : CmdTime(arg, out)

SpecPace == InitCmd /\ [][NextPace]_vars

\* the .night commands (off, on, a new window, a bad range) of an account
\* with one group, and the cycle heads of its forward loop
NightCmdArgs ==
  {<<" ", "o", "f", "f">>, <<" ", "O", "n">>,
   <<" ", "1", "2", " ", "t", "o", " ", "2", "3">>,
   <<" ", "9", ":", "5", "-", "7">>, <<" ", "7", "-", "9", ":", "3", "0">>,
   <<" ", "2", "5", "-", "7">>, <<" ", "7", "-", "1", "2", ":", "6", "0">>}

NextNight ==
  \/ LoopCmd
  \/ \E out \in {"ok", "open_failed", "truncated"} :
       \/ \E arg \in NightCmdArgs : CmdNight(arg, out)
       \/ \E words \in {<<"https://t.me/a">>} : CmdAddGroup(words, out)

SpecNight == InitCmd /\ [][NextNight]_vars

\* commands and restarts of the runner
NextRestart == Commands \/ Restart

SpecRestart == InitCmd /\ [][NextRestart]_vars

(***************************************************************************)
(* user_loader and the run_user_bot tasks it creates                       *)
(***************************************************************************)
\* the entries of USERS_DIR; the path of an entry is identified with it
Names ==
  {[stem |-> "111", ext |-> "json"], [stem |-> "222", ext |-> "json"],
   [stem |-> "notes", ext |-> "txt"]}

\* name.endswith(".json")
EndsWithJson(name) == name.ext = "json"

\* what a file of USERS_DIR can hold: the user record (or an unreadable
\* file) and whether the record has a string_session
FileChoices ==
  {[user |-> NewUser, session |-> TRUE],
   [user |-> NewUser, session |-> FALSE],
   [user |-> [NewUser EXCEPT !.active = FALSE], session |-> TRUE],
   [user |-> [NewUser EXCEPT !.plan_expiry = "2030-01-01T00:00:00"],
    session |-> TRUE],
   [user |-> [NewUser EXCEPT !.plan_expiry = AwareExpiry], session |-> TRUE],
   [user |-> Corrupt, session |-> FALSE]}

\* os.listdir(USERS_DIR): the entries in any order
Listings ==
  {o \in [1..Cardinality(Names) -> Names] :
     \A i, j \in 1..Cardinality(Names) : o[i] = o[j] => i = j}

\* the checks of one pass of the for loop on one entry that end in
\* create_task
StartsTask(name) ==
  /\ EndsWithJson(name)
  /\ name \notin started_users
  /\ Readable(load_user_from_file(files[name].user))
  /\ ~is_plan_active_raises(files[name].user)
  /\ is_plan_active(files[name].user)
  /\ files[name].user.active

\* one pass of the for loop of user_loader over a listing: the names a task
\* is created for, in order; an exception leaves the for loop (the try block
\* is around it), and the entries after it are not looked at
RECURSIVE ScanStarts(_, _)
ScanStarts(order, starts) ==
  IF order = <<>> THEN [starts |-> starts, raised |-> FALSE, rest |-> <<>>]
  ELSE LET name == Head(order)
           user == files[name].user
       IN IF \/ ~EndsWithJson(name)
             \/ name \in started_users
             \/ ~Readable(load_user_from_file(user))
          THEN ScanStarts(Tail(order), starts)
          ELSE IF is_plan_active_raises(user)
          THEN [starts |-> starts, raised |-> TRUE, rest |-> Tail(order)]
          ELSE IF ~is_plan_active(user) \/ ~user.active
          THEN ScanStarts(Tail(order), starts)
          ELSE ScanStarts(Tail(order), Append(starts, name))

\* asyncio.create_task(run_user_bot(path, cfg)) for each name of a list
RECURSIVE CreateTasks(_, _)
CreateTasks(ts, names) ==
  IF names = <<>> THEN ts
  ELSE CreateTasks(Append(ts, [path |-> Head(names),
                               session |-> files[Head(names)].session,
                               pc |-> "created",
                               loop |-> "none"]),
                   Tail(names))

LoaderFrame ==
  UNCHANGED <<acctVars, loopVars, histVars, files, calcVars, queueVars, storeVars,
              restVars, rateVars>>

\* one pass of the while loop of user_loader, up to its sleep(60); missed:
\* the entries the pass would have started a task for and did not look at
Scan(order) ==
  LET r == ScanStarts(order, <<>>) IN
  /\ Len(tasks) + Len(r.starts) <= MaxTasks
  /\ tasks' = CreateTasks(tasks, r.starts)
  /\ scan' = [raised |-> r.raised,
              missed |-> {name \in Range(r.rest) : StartsTask(name)}]
  /\ UNCHANGED started_users
  /\ LoaderFrame

\* run_user_bot from its start to the await of client.connect()
TaskStart(i) ==
  /\ i \in DOMAIN tasks
  /\ tasks[i].pc = "created"
  /\ tasks' = [tasks EXCEPT ![i].pc =
                 IF tasks[i].path \in started_users \/ ~tasks[i].session
                 THEN "ended" ELSE "connect"]
  /\ UNCHANGED <<started_users, scan>>
  /\ LoaderFrame

\* client.connect() returns or raises
ConnectDone(i, ok) ==
  /\ i \in DOMAIN tasks
  /\ tasks[i].pc = "connect"
  /\ tasks' = [tasks EXCEPT ![i].pc =
                 IF ok THEN "is_user_authorized" ELSE "ended"]
  /\ UNCHANGED <<started_users, scan>>
  /\ LoaderFrame

\* started_users.add(config_path) once the session is authorized
AuthorizedAdd(i, ok) ==
  IF ok THEN started_users \cup {tasks[i].path} ELSE started_users

\* client.is_user_authorized() returns or raises; then up to client.get_me()
AuthorizedDone(i, ok) ==
  /\ i \in DOMAIN tasks
  /\ tasks[i].pc = "is_user_authorized"
  /\ tasks' = [tasks EXCEPT ![i].pc = IF ok THEN "get_me" ELSE "ended"]
  /\ started_users' = AuthorizedAdd(i, ok)
  /\ UNCHANGED scan
  /\ LoaderFrame

\* client.get_me() returns: forward_loop is created and the task waits in
\* run_until_disconnected
GetMeDone(i) ==
  /\ i \in DOMAIN tasks
  /\ tasks[i].pc = "get_me"
  /\ tasks' = [tasks EXCEPT ![i].pc = "running", ![i].loop = "looping"]
  /\ UNCHANGED <<started_users, scan>>
  /\ LoaderFrame

\* run_until_disconnected returns: the task ends, the path stays started
Disconnected(i) ==
  /\ i \in DOMAIN tasks
  /\ tasks[i].pc = "running"
  /\ tasks' = [tasks EXCEPT ![i].pc = "ended"]
  /\ UNCHANGED <<started_users, scan>>
  /\ LoaderFrame

\* the head of a cycle of the forward loop of a task finds no readable user
\* file: the loop returns; nothing is taken out of started_users
LoopStops(i) ==
  /\ i \in DOMAIN tasks
  /\ tasks[i].loop = "looping"
  /\ ~Readable(load_user_from_file(files[tasks[i].path].user))
  /\ tasks' = [tasks EXCEPT ![i].loop = "stopped"]
  /\ UNCHANGED <<started_users, scan>>
  /\ LoaderFrame

\* a user file is deleted, damaged or written again between two reads
FileChange(name, choice) ==
  /\ EndsWithJson(name)
  /\ files[name] # choice
  /\ files' = [files EXCEPT ![name] = choice]
  /\ UNCHANGED <<started_users, tasks, scan>>
  /\ UNCHANGED <<acctVars, loopVars, histVars, calcVars, queueVars, storeVars,
                 restVars, rateVars>>

InitLoader ==
  /\ InitAccount
  /\ now = 0
  /\ disk = user_cfg
  /\ started_users = {}
  /\ files \in {f \in [Names -> FileChoices] :
                  \A name \in Names : ~EndsWithJson(name) =>
                                        f[name] = [user |-> NewUser,
                                                   session |-> TRUE]}
  /\ tasks = <<>>
  /\ scan = NoScan
  /\ InitCalcIdle
  /\ InitJoinQueue
  /\ InitStorage
  /\ InitNoRest
  /\ InitLimiterIdle

NextLoader ==
  \/ \E order \in Listings : Scan(order)
  \/ \E i \in 1..MaxTasks :
       \/ TaskStart(i)
       \/ \E ok \in BOOLEAN : ConnectDone(i, ok)
       \/ \E ok \in BOOLEAN : AuthorizedDone(i, ok)
       \/ GetMeDone(i)
       \/ Disconnected(i)
       \/ LoopStops(i)
  \/ \E name \in Names :
       \E choice \in {[user |-> NewUser, session |-> TRUE],
                      [user |-> Corrupt, session |-> FALSE]} :
         FileChange(name, choice)

SpecLoader == InitLoader /\ [][NextLoader]_vars

\* the records the user file of the running account can hold when it is
\* rewritten from outside: active or not, with one group, with no expiry, a
\* naive expiry or an expiry with a UTC offset
PlanRecords ==
  {[NewUser EXCEPT !.groups = <<"https://t.me/a">>,
                    !.active = a,
                    !.plan_expiry = e] :
     a \in BOOLEAN, e \in {None, "2030-01-01T00:00:00", AwareExpiry}}

\* the user file of the running account is rewritten from outside
PlanChange(rec) ==
  /\ disk # rec
  /\ disk' = rec
  /\ ev' = "none"
  /\ reply' = NoReply
  /\ UNCHANGED <<user_cfg, user_state, now, saved, writeFailures, expiryPassed>>
  /\ UNCHANGED <<loopVars, histVars, outerVars>>

\* the forward loop of one account whose record changes, next to the passes
\* of user_loader over a directory with one file of any content
InitPlan ==
  /\ InitAccount
  /\ now = 43200
  /\ started_users = {}
  /\ files \in {f \in [Names -> FileChoices] :
                  \A name \in Names : name.stem # "111" =>
                                        f[name] = [user |-> NewUser,
                                                   session |-> TRUE]}
  /\ tasks = <<>>
  /\ scan = NoScan
  /\ InitCalcIdle
  /\ InitJoinQueue
  /\ InitStorage
  /\ InitNoRest
  /\ InitLimiterIdle

NextPlan ==
  \/ Loop
  \/ \E t \in Times : LoopPlanRaises(t)
  \/ Post("content")
  \/ \E rec \in PlanRecords : PlanChange(rec)
  \/ \E order \in Listings : Scan(order)

SpecPlan == InitPlan /\ [][NextPlan]_vars


(***************************************************************************)
(* Properties of the forward loop                                          *)
(***************************************************************************)
\* this step is a step of forward_loop that starts a cycle (the commands and
\* Post leave the loop and the clock alone; Tick needs a network call)
StartsCycle == AtTop /\ (loopVars' # loopVars \/ now' # now \/ held' # held)

\* this step calls client.forward_messages
StartsForward ==
  /\ pc' = "forward_messages"
  /\ pc # "forward_messages" \/ gi' # gi \/ mi' # mi

\* C1: when the Auto-Night window is active at the start of a cycle, the
\* cycle fetches and forwards nothing and sleeps seconds_until_quiet_end; the
\* step after that sleep is the start of a new cycle, at the end of the window.
C1_QuietCycleSleeps ==
  /\ [][(/\ StartsCycle
         /\ Eligible
         /\ disk.groups # <<>>
         /\ autonight_is_quiet(load_autonight_for_user(disk), now'))
        => (/\ pc' = "sleep"
            /\ sleepWhy' = "quiet"
            /\ sleepFor' =
                 seconds_until_quiet_end(load_autonight_for_user(disk), now', 0)
            /\ messages' = <<>>
            /\ dispatched' = dispatched)]_vars
  /\ [][(pc = "sleep" /\ sleepWhy = "quiet" /\ loopVars' # loopVars)
        => (/\ pc' \in {"sleep", "get_messages", "stopped"}
            /\ now' = (now + sleepFor) % DaySeconds
            /\ cycleDone' = {}
            /\ dispatched' = dispatched)]_vars

\* a cycle sleeps through the night window 23:00 -> 07:00 from its start,
\* with a saved message waiting
C1_Witness ==
  /\ pc = "sleep"
  /\ sleepWhy = "quiet"
  /\ sleepFor = 28800
  /\ saved # <<>>

\* C2: no forward_messages call is started while the quiet window is active
\* for the account's current Auto-Night settings.
C2_NoForwardInQuiet ==
  [][StartsForward => ~autonight_is_quiet(user_state'.auto_cfg, now')]_vars

C4_EveryGroupAttempted ==
  /\ [](pc = "forward_messages" => attempted = SubSeq(groups, 1, gi))
  /\ [][(pc = "forward_messages" /\ loopVars' # loopVars)
        => IF gi < Len(groups)
           THEN /\ pc' = "forward_messages"
                /\ gi' = gi + 1
                /\ mi' = mi
                /\ messages' = messages
                /\ groups' = groups
           ELSE /\ pc' = "sleep"
                /\ sleepWhy' = "delay"
                /\ attempted' = groups]_vars

\* the forward to the first group has failed and the second group is tried
C4_Witness ==
  /\ ev = "fwd_err"
  /\ pc = "forward_messages"
  /\ gi = 2
  /\ attempted = groups

\* C5: between the completion of one item and the first forward of the next
\* item the loop has slept the per-item delay exactly once, and that sleep is
\* called with the delay current when the item completes.
C5_OneDelayPerItem ==
  /\ [](pc = "forward_messages" => sinceItem \in {-1, 1})
  /\ []((pc = "forward_messages" /\ \E p \in dispatched : p[1] # messages[mi])
          => sinceItem = 1)
  /\ [][(pc = "forward_messages" /\ pc' = "sleep")
        => (sleepWhy' = "delay" /\ sleepFor' = user_state.delay)]_vars

\* the second item of a cycle is being forwarded, after a sleep of the delay
\* set by .delay 7
C5_Witness ==
  /\ pc = "forward_messages"
  /\ mi = 2
  /\ gi = 1
  /\ sinceItem = 1
  /\ user_state.delay = 7

\* C6: an exception raised in a cycle is caught: the loop sleeps 60 seconds
\* and then starts a new cycle.
C6_ExceptionBacksOff ==
  /\ [](ev = "exc"
          => pc = "sleep" /\ sleepWhy = "backoff" /\ sleepFor = BackoffSleep)
  /\ [][(pc = "sleep" /\ sleepWhy = "backoff" /\ loopVars' # loopVars)
        => (/\ cycleDone' = {}
            /\ pc' \in {"sleep", "get_messages", "stopped"}
            /\ pc' = "stopped" => ~Readable(disk))]_vars

\* get_messages has raised in a cycle of an account with groups, and the loop
\* is in its 60 second sleep
C6_Witness ==
  /\ ev = "exc"
  /\ pc = "sleep"
  /\ sleepWhy = "backoff"
  /\ Readable(disk)
  /\ disk.groups # <<>>

\* C7: a cycle that finds the group list empty forwards nothing, leaves the
\* saved messages alone and sleeps 300 seconds; the saved messages are never
\* removed, and a later cycle that dispatches has fetched every message that
\* was waiting then (among the latest FetchLimit).
C7_EmptyListHolds ==
  /\ [][(StartsCycle /\ Eligible /\ disk.groups = <<>>)
        => (/\ pc' = "sleep"
            /\ sleepWhy' = "nogroups"
            /\ sleepFor' = IdleSleep
            /\ saved' = saved
            /\ dispatched' = dispatched)]_vars
  /\ [][SubSeq(saved', 1, Len(saved)) = saved]_vars
  /\ []((pc = "forward_messages" \/ (pc = "sleep" /\ sleepWhy = "delay"))
          => \A id \in 1..held :
               id > messages[Len(messages)] - FetchLimit
                 => id \in Range(messages))

\* a message that waited through a cycle without groups is being forwarded
C7_Witness ==
  /\ pc = "forward_messages"
  /\ held >= 1
  /\ messages[mi] <= held

(***************************************************************************)
(* Properties of user_loader and of command_handler                        *)
(***************************************************************************)
\* the run_user_bot tasks that are running the client and forward loop of a
\* path
RunningFor(name) ==
  {i \in DOMAIN tasks : tasks[i].path = name /\ tasks[i].pc = "running"}

\* C8: at most one scheduling loop (client plus forward loop) is running per
\* user file: of the run_user_bot tasks created for one config path, at most
\* one gets past the duplicate-start check and runs.
C8_OneLoopPerFile ==
  \A name \in Names : Cardinality(RunningFor(name)) <= 1

\* the fields of the user record a command changes
FieldsOf(cmd) ==
  CASE cmd = "time" -> {"cycle_delay_min"}
    [] cmd = "delay" -> {"msg_delay_sec"}
    [] cmd \in {"addgroup", "delgroup"} -> {"groups"}
    [] cmd = "night" -> {"auto_night"}
    [] OTHER -> {}

\* the fields in which two user records differ
ChangedFields(old, new) ==
  (IF old.settings.cycle_delay_min # new.settings.cycle_delay_min
   THEN {"cycle_delay_min"} ELSE {})
  \cup (IF old.settings.msg_delay_sec # new.settings.msg_delay_sec
        THEN {"msg_delay_sec"} ELSE {})
  \cup (IF old.groups # new.groups THEN {"groups"} ELSE {})
  \cup (IF old.auto_night # new.auto_night THEN {"auto_night"} ELSE {})
  \cup (IF old.active # new.active THEN {"active"} ELSE {})
  \cup (IF old.plan_expiry # new.plan_expiry THEN {"plan_expiry"} ELSE {})

\* C9: mutations of the persisted configuration are serialized: a handler's
\* load of the user record and its save happen in one step, so whenever the
\* user file is readable before and after a step, the step changed at most
\* the field of the command it handled and kept every value other commands
\* had saved; a step of the forward loop changes nothing in the file.
C9_SavesSerialized ==
  [][(Readable(disk) /\ Readable(disk'))
       => ChangedFields(disk, disk') \subseteq FieldsOf(reply'.cmd)]_vars

\* a .delay is acknowledged while a forward of the loop is in flight, and the
\* file still has the groups an earlier .addgroup saved
C9_Witness ==
  /\ reply.cmd = "delay" /\ reply.kind = "ok"
  /\ pc = "forward_messages"
  /\ Readable(disk)
  /\ disk.settings.msg_delay_sec = 7
  /\ disk.groups = <<"https://t.me/a", "https://t.me/b">>

\* the value a success reply confirms is the one the user file holds
Persisted(r) ==
  /\ Readable(disk)
  /\ CASE r.cmd = "time" -> disk.settings.cycle_delay_min = r.value
       [] r.cmd = "delay" -> disk.settings.msg_delay_sec = r.value
       [] r.cmd \in {"addgroup", "delgroup"} -> disk.groups = r.value
       [] r.cmd = "night" -> disk.auto_night = r.value
       [] OTHER -> TRUE

\* C10: whenever .time, .delay, .addgroup, .delgroup or .night has sent its
\* success reply, the user file on disk holds the new value, also when the
\* write to disk failed.
C10_PersistedBeforeReply ==
  reply.kind = "ok" => Persisted(reply)

\* C11: a malformed command (answered with a usage message) changes neither
\* the persisted user record nor the live delay, cycle and auto-night
\* settings.
C11_MalformedNoChange ==
  [][reply'.kind = "usage" => (disk' = disk /\ user_state' = user_state)]_vars

\* C12: restart resilience: stopping the runner and starting it again
\* reproduces the live message delay, cycle delay and quiet-window settings
\* the acknowledged commands had set (the destination list lives only in the
\* user file, which a restart leaves alone).
C12_RestartReproduces ==
  [][ev' = "restart" => (user_state' = user_state /\ disk' = disk)]_vars

\* no entry occurs twice in a list
NoDup(gs) == \A i, j \in 1..Len(gs) : gs[i] = gs[j] => i = j

\* the position of an entry in a list
IndexOf(gs, x) == CHOOSE i \in 1..Len(gs) : gs[i] = x

\* the entries kept from old to new keep their relative order, and the
\* entries new has gained come after them
OrderKept(old, new) ==
  /\ \A x, y \in Range(old) \cap Range(new) :
       IndexOf(old, x) < IndexOf(old, y) => IndexOf(new, x) < IndexOf(new, y)
  /\ \A x \in Range(old) \cap Range(new) : \A y \in Range(new) \ Range(old) :
       IndexOf(new, x) < IndexOf(new, y)

\* C13: after any sequence of .addgroup and .delgroup commands the persisted
\* destination list has no link twice, and every command keeps the relative
\* insertion order of the links that remain.
C13_NoDuplicatesInOrder ==
  /\ [](Readable(disk) => NoDup(disk.groups))
  /\ [][(Readable(disk) /\ Readable(disk'))
          => OrderKept(disk.groups, disk'.groups)]_vars

\* a .delgroup has removed the first of three links
C13_Witness ==
  /\ reply.cmd = "delgroup" /\ reply.kind = "ok"
  /\ Readable(disk)
  /\ disk.groups = <<"https://t.me/b", "https://t.me/c">>

\* C14: the number of configured destinations never exceeds maxDestinations:
\* an .addgroup that would take the list beyond the cap is refused.
C14_CapRespected ==
  Readable(disk) => Len(disk.groups) <= maxDestinations

(***************************************************************************)
(* Properties of the Auto-Night helpers                                    *)
(***************************************************************************)
\* the instant and the window of the evaluation, in half seconds of the day
CalcNow == 2 * calc.t + calc.sub
CalcStart == 2 * TimeSecs(_parse_hhmm(calc.cfg.start))
CalcEnd == 2 * TimeSecs(_parse_hhmm(calc.cfg.end))

\* the evaluation has the window 23:00 -> 07:00 and a whole-second instant
NightWindow ==
  /\ calc.cfg.start = <<"2", "3", ":", "0", "0">>
  /\ calc.cfg.end = <<"0", "7", ":", "0", "0">>
  /\ calc.sub = 0

\* C15: _in_window is the half-open interval test with midnight wrap: when
\* start <= end it is true iff start <= now < end, when start > end iff
\* now >= start or now < end; for 23:00-07:00 it is true at 23:30, 02:00 and
\* 06:59 and false at 07:00, 12:00 and 22:59.
C15_HalfOpenWrap ==
  calc.step \in {"tested", "timed"} =>
    /\ CalcStart <= CalcEnd =>
         (calc.inwin <=> (CalcStart <= CalcNow /\ CalcNow < CalcEnd))
    /\ CalcStart > CalcEnd =>
         (calc.inwin <=> (CalcNow >= CalcStart \/ CalcNow < CalcEnd))
    /\ (NightWindow /\ calc.t \in {84600, 7200, 25140}) => calc.inwin
    /\ (NightWindow /\ calc.t \in {25200, 43200, 82740}) => ~calc.inwin

\* 06:59 has been tested against the window 23:00 -> 07:00
C15_Witness ==
  /\ calc.step = "tested"
  /\ NightWindow
  /\ calc.t = 25140
  /\ calc.inwin

\* the half seconds from the instant of the evaluation to the next occurrence
\* of the end time strictly after it
ToEnd == ((CalcEnd - CalcNow - 1) % (2 * DaySeconds)) + 1

\* C16 as claimed: for every now inside the window, seconds_until_quiet_end
\* returns the whole number of seconds from now to the next occurrence of the
\* end time strictly after now.
C16_WholeSecondsToEnd ==
  (calc.step = "timed" /\ calc.inwin) => calc.secs = ToEnd \div 2

\* C16 as amended: for every now inside the window it returns the whole number
\* of seconds from now to the next occurrence of the end time, and 1 when
\* that is less than a second away; 28800 for 23:00-07:00 at 23:00 exactly.
C16_WholeSecondsAtLeastOne ==
  (calc.step = "timed" /\ calc.inwin) =>
    /\ calc.secs = Max(1, ToEnd \div 2)
    /\ (NightWindow /\ calc.t = 82800) => calc.secs = 28800

\* the sleep length at 23:00 exactly for the window 23:00 -> 07:00
C16_Witness ==
  /\ calc.step = "timed"
  /\ calc.inwin
  /\ NightWindow
  /\ calc.t = 82800
  /\ calc.secs = 28800

\* C17: seconds_until_quiet_end returns at least 1 for every window and every
\* now, so a quiet-window sleep never has zero or negative length.
C17_AtLeastOne ==
  calc.step = "timed" => calc.secs >= 1

\* half a second before the end of the window the sleep length is 1
C17_Witness ==
  /\ calc.step = "timed"
  /\ calc.cfg.end = <<"0", "7", ":", "0", "0">>
  /\ calc.t = 25199
  /\ calc.sub = 1
  /\ calc.secs = 1

\* C18: a window whose start equals its end is empty: for every time of day
\* the quiet test is false.
C18_EmptyWindow ==
  (calc.step \in {"tested", "timed"} /\ CalcStart = CalcEnd) =>
    (~calc.inwin /\ ~calc.quiet)

\* a window written "07:00" to "7" has been tested at 07:00 with Auto-Night
\* enabled
C18_Witness ==
  /\ calc.step = "tested"
  /\ calc.cfg.enabled
  /\ calc.cfg.start = <<"0", "7", ":", "0", "0">>
  /\ calc.cfg.end = <<"7">>
  /\ calc.t = 25200
  /\ ~calc.quiet

(***************************************************************************)
(* Properties of JoinQueue                                                 *)
(***************************************************************************)
\* C19: JoinQueue is FIFO: a dequeue returns the earliest-accepted item that
\* has not been dequeued (None when there is none), and the queue file lists
\* the pending items in the order they were accepted, the items of one
\* enqueue_many in the order of its argument.
C19_Fifo ==
  /\ [][(jq_ret'.op = "dequeue" /\ jq_ret'.added = 0)
          => jq_ret'.it = (IF jq_pending = <<>> THEN NoItem
                           ELSE Head(jq_pending))]_vars
  /\ [](jq_items = jq_pending)

\* of three queued items the first has been dequeued
C19_Witness ==
  /\ jq_ret.op = "dequeue"
  /\ jq_ret.it = [kind |-> "invite", value |-> "abc123"]
  /\ jq_items = <<[kind |-> "username", value |-> "publicChannel"],
                  [kind |-> "entity_id", value |-> "123456"]>>

\* C20: starting from an empty queue, the persisted join queue never holds two
\* items with equal (kind, value).
C20_NoEqualKeys ==
  \A i, j \in DOMAIN jq_items :
    KeyOf(jq_items[i]) = KeyOf(jq_items[j]) => i = j

\* an enqueue of an item that is in the queue has added nothing
C20_Witness ==
  /\ jq_ret.op = "enqueue"
  /\ jq_ret.added = 0
  /\ jq_items # <<>>

\* the keys of a list of items
KeysOf(items) == {KeyOf(items[i]) : i \in DOMAIN items}

\* C21: enqueue_many returns the number of items it appended, which is the
\* number of distinct (kind, value) pairs of its argument not already in the
\* queue, and the queue grows by that number; enqueue returns true iff its
\* item was appended.
C21_CountOfNewItems ==
  /\ [][(jq_ret'.op = "enqueue_many" /\ jq_ret'.added >= 0)
          => (/\ jq_ret'.added = Len(jq_items') - Len(jq_items)
              /\ jq_ret'.added =
                   Cardinality(KeysOf(jq_ret'.arg) \ KeysOf(jq_items)))]_vars
  /\ [][(jq_ret'.op = "enqueue" /\ jq_ret'.added >= 0)
          => (/\ jq_ret'.flag <=> Len(jq_items') = Len(jq_items) + 1
              /\ jq_ret'.flag <=> KeysOf(jq_ret'.arg) \cap KeysOf(jq_items) = {}
              /\ ~jq_ret'.flag => jq_items' = jq_items)]_vars

\* an enqueue_many of twice the same new item has returned 1
C21_Witness ==
  /\ jq_ret.op = "enqueue_many"
  /\ Len(jq_ret.arg) = 2
  /\ jq_ret.arg[1] = jq_ret.arg[2]
  /\ jq_ret.added = 1

\* C22: deduplication is only against the items currently queued: an item
\* that was dequeued before and is not in the queue is accepted again and
\* appended at the tail.
C22_DequeuedItemAcceptedAgain ==
  [][(/\ jq_ret'.op = "enqueue"
      /\ jq_ret'.added >= 0
      /\ jq_ret'.arg[1] \in jq_served
      /\ KeyOf(jq_ret'.arg[1]) \notin KeysOf(jq_items))
        => (jq_ret'.flag /\ jq_items' = Append(jq_items, jq_ret'.arg[1]))]_vars

\* an item that dequeue had returned has been enqueued again, behind another
C22_Witness ==
  /\ jq_ret.op = "enqueue"
  /\ jq_ret.flag
  /\ jq_ret.arg[1] \in jq_served
  /\ Len(jq_items) >= 2
  /\ jq_items[Len(jq_items)] = jq_ret.arg[1]

\* C23: opening a JoinQueue on a path whose file exists changes nothing (the
\* same items in the same order); only a missing file is initialized, to the
\* empty queue.
C23_ReopenKeepsItems ==
  [][jq_ret'.op = "open"
       => IF jq_file = "missing"
          THEN jq_file' = "present" /\ jq_items' = <<>>
          ELSE jq_file' = jq_file /\ jq_items' = jq_items]_vars

\* a queue of two items has been opened again
C23_Witness ==
  /\ jq_ret.op = "open"
  /\ ~jq_ret.flag
  /\ jq_file = "present"
  /\ Len(jq_items) >= 2

\* C24: a process that stops at any point of enqueue, enqueue_many or dequeue
\* leaves a queue file that holds either the complete queue of before the
\* call or the complete queue of after it, never a partial or corrupt one.
C24_CrashLeavesBeforeOrAfter ==
  [][jq_ret'.op = "crash"
       => /\ jq_file' = "present"
          /\ \/ jq_items' = jq_items
             \/ jq_items' = (IF jq_ret'.it = NoItem
                             THEN enqueue_many(jq_items, jq_ret'.arg)
                             ELSE Tail(jq_items))]_vars

\* the process has stopped before the move, in an enqueue_many of a new item
\* on a queue that held one
C24_Witness ==
  /\ jq_ret.op = "crash"
  /\ ~jq_ret.flag
  /\ jq_ret.it = NoItem
  /\ jq_ret.arg # <<>>
  /\ jq_items # <<>>
  /\ KeyOf(jq_ret.arg[1]) \notin KeysOf(jq_items)

\* C25: dequeue on an empty queue returns None and leaves the persisted queue
\* unchanged; size returns the number of items enqueued and not yet dequeued.
C25_EmptyDequeueAndSize ==
  /\ [][(jq_ret'.op = "dequeue" /\ jq_ret'.added >= 0 /\ jq_items = <<>>)
          => (/\ jq_ret'.it = NoItem
              /\ jq_items' = jq_items
              /\ jq_file' = jq_file)]_vars
  /\ [][(jq_ret'.op = "size" /\ jq_ret'.added >= 0)
          => (jq_ret'.added = Len(jq_pending) /\ jq_items' = jq_items)]_vars

\* dequeue has returned None on a queue that had been emptied by dequeue
C25_Witness ==
  /\ jq_ret.op = "dequeue"
  /\ jq_ret.added >= 0
  /\ jq_ret.it = NoItem
  /\ jq_items = <<>>
  /\ jq_served # {}

\* C26: Storage round trip: a load that follows a save returns a config with
\* the phone, plan_expiry, cycle_minutes and group set that were saved, and
\* saving the loaded config again leaves the content of the file unchanged.
C26_SaveLoadRoundTrip ==
  /\ [][(st_ret.op = "save" /\ st_ret.n >= 0 /\ st_ret'.op = "load")
          => (/\ st_ret'.n >= 0
              /\ st_ret'.cfg.phone = st_ret.cfg.phone
              /\ st_ret'.cfg.plan_expiry = st_ret.cfg.plan_expiry
              /\ st_ret'.cfg.cycle_minutes = st_ret.cfg.cycle_minutes
              /\ st_ret'.cfg.groups = st_ret.cfg.groups)]_vars
  /\ [][(/\ st_ret.op = "load" /\ st_ret.n >= 0
         /\ st_ret'.op = "save" /\ st_ret'.n >= 0
         /\ st_ret'.cfg = st_ret.cfg)
          => st_file' = st_file]_vars

\* a config with two groups and a cycle that is not the default has been
\* loaded from the file
C26_Witness ==
  /\ st_ret.op = "load"
  /\ st_ret.n >= 0
  /\ st_ret.cfg.cycle_minutes # UserConfigCycleMinutes
  /\ Cardinality(st_ret.cfg.groups) >= 2
  /\ st_file.data.groups = <<123, 456>>

\* strictly ascending list
Ascending(l) == \A i, j \in DOMAIN l : i < j => l[i] < l[j]

\* C27: add_groups treats groups as a set: it returns the number of ids of
\* its argument that were not stored, an id repeated in the argument counted
\* once, and afterwards list_groups is the sorted union of the previous groups
\* and the argument.
C27_AddGroupsIsSetUnion ==
  /\ [][(st_ret'.op = "add_groups" /\ st_ret'.n >= 0)
          => LET old == SetOfList(st_file.data.groups)
                 arg == SetOfList(st_ret'.ids)
                 l == list_groups(st_file'.data)
             IN /\ st_ret'.n = Cardinality(arg \ old)
                /\ SetOfList(l) = old \cup arg
                /\ Ascending(l)]_vars
  /\ [][(st_ret'.op = "list_groups" /\ st_ret'.n >= 0)
          => (/\ Ascending(st_ret'.list)
              /\ SetOfList(st_ret'.list) = SetOfList(st_file.data.groups)
              /\ st_file' = st_file)]_vars

\* add_groups([123, 456, 123]) has returned 2
C27_Witness ==
  /\ st_ret.op = "add_groups"
  /\ st_ret.ids = <<123, 456, 123>>
  /\ st_ret.n = 2

\* C28: remove_group returns true iff the id was stored; when it was, exactly
\* that id is removed and every other group and field remains; when it was
\* not, the stored configuration is unchanged.
C28_RemoveGroupFrame ==
  [][(st_ret'.op = "remove_group" /\ st_ret'.n >= 0)
       => LET old == SetOfList(st_file.data.groups)
              new == SetOfList(st_file'.data.groups)
          IN /\ st_ret'.flag <=> st_ret'.id \in old
             /\ IF st_ret'.id \in old
                THEN /\ new = old \ {st_ret'.id}
                     /\ st_file' = [st_file EXCEPT
                                      !.data.groups = st_file'.data.groups]
                ELSE st_file' = st_file]_vars

\* one of two stored groups has been removed
C28_Witness ==
  /\ st_ret.op = "remove_group"
  /\ st_ret.flag
  /\ st_ret.id = 123
  /\ st_file.data.groups = <<456>>

\* seconds of an hour, a minute, a day, as the units h, m, d count them
UnitSeconds(u) ==
  CASE u = "d" -> 24 * 60 * 60 [] u = "h" -> 60 * 60 [] u = "m" -> 60
    [] OTHER -> 1

\* C29: the pacing commands parse duration strings with the units s, m, h and
\* d, summing the components, seconds when no unit is given: after
\* ".delay 1h30m" the per-item delay is 5400 seconds, after ".delay 45" it is
\* 45 seconds, after ".delay 2d" it is 172800 seconds.
C29_DurationsParsed ==
  [][\A out \in {"ok", "open_failed", "truncated"} :
       /\ CmdDelay(<<" ", "1", "h", "3", "0", "m">>, out)
            => (/\ reply'.kind = "ok"
                /\ user_state'.delay = UnitSeconds("h") + 30 * UnitSeconds("m"))
       /\ CmdDelay(<<" ", "4", "5">>, out)
            => (reply'.kind = "ok" /\ user_state'.delay = 45 * UnitSeconds("s"))
       /\ CmdDelay(<<" ", "2", "d">>, out)
            => (reply'.kind = "ok" /\ user_state'.delay = 2 * UnitSeconds("d"))]_vars

\* C30: round-robin dispatch: each item is sent to exactly one destination,
\* the one at the rotation cursor, so that with destinations [A, B, C]
\* successive items go to A, B, C, A. forward_loop has one way of dispatching
\* and no mode setting, so the property is stated of every item the loop
\* forwards: no item has a forward started to more than one destination.
C30_OneDestinationPerItem ==
  Len(attempted) <= 1

\* C31: while restUntil is set and the current time is before restUntil, the
\* dispatch loop performs no send (and dispatch resumes once restUntil has
\* passed): no forward is in flight, and none has completed, before restUntil.
C31_RestSuppressesDispatch ==
  (restUntil > 0 /\ now < restUntil) => (pc # "forward_messages" /\ dispatched = {})

\* the joins made in the trailing window of instant t
JoinsInWindow(t) ==
  Cardinality({i \in DOMAIN limiter.made :
                 limiter.made[i] <= t /\ t - limiter.made[i] < WindowSeconds})

\* C32: the number of joins performed in any trailing 3600-second window
\* never exceeds the configured per-hour cap (default 15): once the count in
\* the window has reached the cap, a request is deferred until an earlier
\* join has left the window.
C32_JoinsPerHourCapped ==
  /\ \A k \in 0..limiter.ticks :
       JoinsInWindow(k * (WindowSeconds \div 2)) <= limiter.cap
  /\ limiter.last = "deferred" => JoinsInWindow(limiter.clock) = limiter.cap

\* with the default cap, fifteen joins have been made in the window, a
\* further request was deferred, and joins were made again later
C32_Witness ==
  /\ limiter.cap = joins_per_hour_limit
  /\ limiter.last = "deferred"
  /\ Len(limiter.made) > joins_per_hour_limit
  /\ JoinsInWindow(limiter.clock) = joins_per_hour_limit

\* C33: when Auto-Night is disabled the quiet test is false at every time of
\* day, whatever start and end are stored, so no cycle that starts on a user
\* file with Auto-Night off is suppressed by the quiet window; ".night on"
\* enables Auto-Night (in the file when the write works) and leaves the
\* stored start and end as they were.
C33_DisabledNeverQuiet ==
  /\ [](Readable(disk) /\ ~load_autonight_for_user(disk).enabled
          => \A t \in Times : ~autonight_is_quiet(load_autonight_for_user(disk), t))
  /\ [][(/\ StartsCycle
         /\ Readable(disk)
         /\ ~load_autonight_for_user(disk).enabled)
          => sleepWhy' # "quiet"]_vars
  /\ [][\A out \in {"ok", "open_failed", "truncated"} :
          CmdNight(<<" ", "O", "n">>, out)
            => (/\ user_state'.auto_cfg.enabled
                /\ user_state'.auto_cfg.start = AutoLocal.start
                /\ user_state'.auto_cfg.end = AutoLocal.end
                /\ (Readable(disk) /\ Readable(disk'))
                     => (/\ out = "ok" => disk'.auto_night.enabled
                         /\ disk'.auto_night.start = disk.auto_night.start
                         /\ disk'.auto_night.end = disk.auto_night.end))]_vars

\* a cycle has started at noon, inside the stored window 12:00-23:00, with
\* Auto-Night off, and went on to fetch the messages
C33_Witness ==
  /\ Readable(disk)
  /\ ~disk.auto_night.enabled
  /\ disk.auto_night.start = <<"1", "2", ":", "0", "0">>
  /\ now = 43200
  /\ pc = "get_messages"

\* a zero-padded HH:MM string with hour 0..23 and minute 0..59
ZeroPaddedHHMM(s) ==
  /\ Len(s) = 5
  /\ s[3] = ":"
  /\ \A i \in {1, 2, 4, 5} : s[i] \in Digits
  /\ 10 * DigitVal(s[1]) + DigitVal(s[2]) <= 23
  /\ 10 * DigitVal(s[4]) + DigitVal(s[5]) <= 59

\* C37: starting from a valid window, after any sequence of .night commands
\* the persisted Auto-Night start and end are zero-padded HH:MM strings with
\* hour 0..23 and minute 0..59 that _parse_hhmm accepts; a range with an
\* out-of-range hour or minute is rejected and the previous start and end
\* are kept.
C37_PersistedWindowValid ==
  /\ [](Readable(disk)
          => (/\ ZeroPaddedHHMM(disk.auto_night.start)
              /\ ZeroPaddedHHMM(disk.auto_night.end)
              /\ _parse_hhmm(disk.auto_night.start).ok
              /\ _parse_hhmm(disk.auto_night.end).ok))
  /\ [][\A out \in {"ok", "open_failed", "truncated"} :
          \A arg \in {<<" ", "2", "5", "-", "7">>,
                      <<" ", "7", "-", "1", "2", ":", "6", "0">>} :
            CmdNight(arg, out)
              => (/\ reply'.kind = "usage"
                  /\ user_state'.auto_cfg.start = AutoLocal.start
                  /\ user_state'.auto_cfg.end = AutoLocal.end
                  /\ (Readable(disk) /\ Readable(disk'))
                       => (/\ disk'.auto_night.start = disk.auto_night.start
                           /\ disk'.auto_night.end = disk.auto_night.end))]_vars

\* ".night 7-9:30" has been persisted as 07:00 and 09:30, and a range with
\* hour 25 has been rejected after it
C37_Witness ==
  /\ Readable(disk)
  /\ disk.auto_night.start = <<"0", "7", ":", "0", "0">>
  /\ disk.auto_night.end = <<"0", "9", ":", "3", "0">>
  /\ reply.cmd = "night"
  /\ reply.kind = "usage"

\* the tasks of a path whose forward loop has returned
StoppedFor(name) ==
  {i \in DOMAIN tasks : tasks[i].path = name /\ tasks[i].loop = "stopped"}

\* this step starts a forward loop for a path
StartsLoopFor(name) ==
  \E i \in DOMAIN tasks' :
    /\ tasks'[i].path = name
    /\ tasks'[i].loop = "looping"
    /\ i \in DOMAIN tasks => tasks[i].loop = "none"

\* C34: the forward loop of a started account stops only when its user file
\* cannot be loaded at the start of a cycle; after it has stopped, no new
\* forward loop is ever started for that config path in the same process,
\* also when the file has become readable again.
C34_NoLoopAfterStop ==
  /\ [][\A i \in DOMAIN tasks :
          (tasks[i].loop = "looping" /\ tasks'[i].loop = "stopped")
            => ~Readable(load_user_from_file(files[tasks[i].path].user))]_vars
  /\ [][\A name \in Names : StoppedFor(name) # {} => ~StartsLoopFor(name)]_vars

\* C38: a failure while examining or starting one user file in a pass of
\* user_loader does not prevent the other eligible user files from being
\* started in the same pass: no pass leaves out a file it would have
\* started a task for.
C38_FailureDoesNotStopScan ==
  scan.missed = {}


\* C35: within one cycle the loop forwards only to the groups of the list it
\* read from the user file when the cycle started. The list of a cycle is the
\* list of the file at the step that starts the cycle and no step changes it
\* before the cycle is over; every forward that is started or finished goes to a member of
\* it, so a group added by .addgroup during the cycle receives nothing before
\* the next cycle, and a group that is not in the file when a cycle starts
\* (its removal by .delgroup was persisted) receives nothing in that cycle.
C35_CycleUsesListAtStart ==
  /\ [][IF pc # "get_messages" /\ pc' = "get_messages"
        THEN groups' = disk.groups
        ELSE \/ groups' = groups
             \/ pc' = "sleep" /\ sleepWhy' # "delay" /\ groups' = <<>>]_vars
  /\ [][(pc' = "forward_messages" /\ cycleDone' # cycleDone)
          => /\ attempted' # <<>>
             /\ attempted'[Len(attempted')] \in Range(groups)]_vars
  /\ [][\A d \in dispatched' \ dispatched : d[2] \in Range(groups)]_vars

\* a forward is being made in a cycle during which one group was added to the
\* file and another removed from it
C35_Witness ==
  /\ pc = "forward_messages"
  /\ Range(disk.groups) \ Range(groups) # {}
  /\ Range(groups) \ Range(disk.groups) # {}
  /\ dispatched # {}

\* the record has an expiry and the expiry is not in the future
ExpiryNotInFuture(rec) == rec.plan_expiry # None /\ expiryPassed

\* a readable record that is inactive or whose plan has run out
NotEntitled(rec) ==
  /\ Readable(load_user_from_file(rec))
  /\ ~rec.active \/ ExpiryNotInFuture(rec)

\* C36: a cycle whose freshly loaded record is inactive or has an expiry that
\* is not in the future makes no forward: the loop sleeps 300 seconds and
\* starts over; a pass of user_loader creates no client task for a file with
\* such a record; and a record with no expiry counts as active, in the loop
\* (an active record without expiry is not put to sleep as expired or
\* inactive) and in the pass (the file's task is created unless the pass
\* has raised).
C36_NotEntitledNeverForwards ==
  /\ [][(NotEntitled(disk) /\ \E t \in Times : CycleHead(t))
          => /\ pc' = "sleep"
             /\ sleepFor' = IdleSleep
             /\ dispatched' = dispatched]_vars
  /\ [][\A i \in DOMAIN tasks' \ DOMAIN tasks :
          ~NotEntitled(files[tasks'[i].path].user)]_vars
  /\ [][(/\ Readable(load_user_from_file(disk))
         /\ disk.active
         /\ disk.plan_expiry = None
         /\ \E t \in Times : CycleHead(t))
          => ~(pc' = "sleep" /\ sleepWhy' \in {"inactive", "expired"})]_vars

=========================================================================
